---------------------------- MODULE Spec2Model ----------------------------
(***************************************************************************)
(* Franchise Decision Lab: the metric-impact / heuristic-selection core    *)
(* (src/heuristics.py), the completion client, response parser and         *)
(* scenario generator (src/generator.py), the metrics ledger helpers       *)
(* (src/utils.py) and the session wizard that drives them (src/app.py).    *)
(*                                                                         *)
(* Strings are modelled by what the code asks of them: a payload string is *)
(* a token with a strip() table, a "contains 'loader'" table and equality; *)
(* a free text (choice description, scenario description) is the set of    *)
(* keywords that occur in it; a JSON document is its decoded shape.        *)
(***************************************************************************)
EXTENDS Integers, Sequences, FiniteSets, TLC

VARIABLES
    \* st.session_state of src/app.py
    step, viewing_step, business_profile, scenario_topics, topics_generated,
    current_topic, current_scenario, decision_history, business_metrics,
    showing_decision_summary, current_analysis, current_impacts, last_choice,
    \* an exception that left a handler uncaught ("none" while there is none)
    raised,
    \* a single function under test: its argument, its result, calls made
    arg, ret, calls

sessionVars == <<step, viewing_step, business_profile, scenario_topics,
                 topics_generated, current_topic, current_scenario,
                 decision_history, business_metrics, showing_decision_summary,
                 current_analysis, current_impacts, last_choice, raised>>

unitVars == <<arg, ret, calls>>

vars == <<step, viewing_step, business_profile, scenario_topics,
          topics_generated, current_topic, current_scenario,
          decision_history, business_metrics, showing_decision_summary,
          current_analysis, current_impacts, last_choice, raised,
          arg, ret, calls>>

Min(a, b) == IF a <= b THEN a ELSE b
Max(a, b) == IF a >= b THEN a ELSE b

\* Python's None, and the value of a variable no call has set yet
None == "None"

-----------------------------------------------------------------------------
(* src/utils.py: the metrics ledger                                        *)

MetricKeys == {"cash_flow", "customer_satisfaction", "growth_potential", "risk_level"}

PercentKeys == {"customer_satisfaction", "growth_potential", "risk_level"}

INITIAL_METRICS ==
    [cash_flow |-> 100000, customer_satisfaction |-> 50,
     growth_potential |-> 50, risk_level |-> 30]

\* updated_metrics[metric] += impact raises KeyError for a metric the state lacks
ApplyRaises(current_metrics, impacts) ==
    \E metric \in DOMAIN impacts : metric \notin DOMAIN current_metrics

ClampPercentOff(v) == v

\* max(0, min(100, v))
ClampPercent(v) == Max(0, Min(100, v))

apply_metric_impacts(current_metrics, impacts) ==
    [metric \in DOMAIN current_metrics |->
        IF metric \in DOMAIN impacts
        THEN IF metric # "cash_flow"
             THEN ClampPercent(current_metrics[metric] + impacts[metric])
             ELSE current_metrics[metric] + impacts[metric]
        ELSE current_metrics[metric]]

ApplyInPlace(current_metrics, impacts) ==
    [current_metrics |-> apply_metric_impacts(current_metrics, impacts),
     updated_metrics |-> apply_metric_impacts(current_metrics, impacts)]

\* The two dicts when apply_metric_impacts returns: the loop writes to
\* updated_metrics, the copy made at line 96, so the dict passed in keeps
\* its values.
ApplyOnCopy(current_metrics, impacts) ==
    [current_metrics |-> current_metrics,
     updated_metrics |-> apply_metric_impacts(current_metrics, impacts)]

\* health_score * 100, exactly, as the fraction HealthNumerator / 10000
HealthNumerator(metrics) ==
    4 * Min(metrics.cash_flow, 100000)
    + 1000 * (3 * metrics.customer_satisfaction
              + 2 * metrics.growth_potential - metrics.risk_level)

HealthTruncateOff(n) == IF n <= 0 THEN -((-n) \div 10000) ELSE n \div 10000

\* int(max(0, min(100, x))) of the exact value x = n / 10000
HealthTruncate(n) == IF n <= 0 THEN 0 ELSE Min(100, n \div 10000)

\* The code computes in binary floating point. Where the exact value has a
\* fractional part the float truncates to the same integer; where the exact
\* value is a whole number the float may fall just below it (0.62 * 100 can
\* be 61.99999999999999), so both outcomes are possible results.
calculate_business_health(metrics) ==
    LET n == HealthNumerator(metrics)
        v == HealthTruncate(n)
    IN  IF n > 0 /\ n % 10000 = 0 /\ n <= 1000000
        THEN {v, v - 1}
        ELSE {v}

get_business_status_late(health_score) ==
    IF health_score > 80 THEN "Thriving"
    ELSE IF health_score > 58 THEN "Stable"
    ELSE IF health_score > 40 THEN "Challenged"
    ELSE IF health_score > 20 THEN "Struggling"
    ELSE "Critical"

get_business_status(health_score) ==
    IF health_score >= 80 THEN "Thriving"
    ELSE IF health_score >= 60 THEN "Stable"
    ELSE IF health_score >= 40 THEN "Challenged"
    ELSE IF health_score >= 20 THEN "Struggling"
    ELSE "Critical"

-----------------------------------------------------------------------------
(* src/heuristics.py: the Impact Calculator                                *)

CASH_MIN == -50000
CASH_MAX == 25000
PCT_MIN == -25
PCT_MAX == 25
IMPACT_ATTEMPTS == 3

\* A JSON value of a metric: a number, or anything else (null, a string, a list)
JNum(v) == [t |-> "num", v |-> v]
JOther == [t |-> "other", v |-> 0]

NoDoc == [k \in {} |-> JOther]

\* What one requests.post of calculate_metric_impacts can come back with:
\*   exception  requests.post raises
\*   status     status_code is not 200
\*   notjson    response.json() raises, or the body is not a JSON object
\*   empty      the body has no 'object' field, or an empty one
\*   badjson    'object' holds text that json.loads rejects
\*   nondict    'object' decodes to a JSON value that is not an object
\*   dict       'object' decodes to the JSON object doc; fenced: the text is
\*              wrapped in ```json ... ``` markers
ImpactResp(kind, fenced, doc) == [kind |-> kind, fenced |-> fenced, doc |-> doc]

\* result.replace('```json', '').replace('```', '').strip()
CleanFences(resp) == [resp EXCEPT !.fenced = FALSE]

\* json.loads(result) succeeds and gives a JSON object
LoadsObject(resp) == resp.kind = "dict" /\ ~resp.fenced

HasRequiredKeysAny(doc) == \E key \in MetricKeys : key \in DOMAIN doc

\* all(key in impacts for key in required_keys)
HasRequiredKeys(doc) == \A key \in MetricKeys : key \in DOMAIN doc

\* the comparisons -50000 <= impacts[k] <= 25000 raise TypeError on a value
\* that is not a number
ComparableValues(doc) == \A key \in MetricKeys : doc[key].t = "num"

ClampImpactOff(metric, v) == v

\* max(lo, min(hi, v)) with the range of the metric
ClampImpact(metric, v) ==
    IF metric = "cash_flow"
    THEN Max(CASH_MIN, Min(CASH_MAX, v))
    ELSE Max(PCT_MIN, Min(PCT_MAX, v))

\* the dict returned at line 159: the four metrics clamped in place, any
\* other key of the decoded object left in it
ValidatedImpacts(doc) ==
    [key \in DOMAIN doc |->
        IF key \in MetricKeys THEN ClampImpact(key, doc[key].v) ELSE doc[key].v]

AttemptSucceedsLax(resp) ==
    /\ LoadsObject(CleanFences(resp))
    /\ HasRequiredKeysAny(resp.doc)

AttemptSucceedsInRange(resp) ==
    /\ LoadsObject(CleanFences(resp))
    /\ HasRequiredKeys(resp.doc)
    /\ ComparableValues(resp.doc)
    /\ \A key \in MetricKeys : ClampImpact(key, resp.doc[key].v) = resp.doc[key].v

\* one pass of the loop body returns (instead of falling to time.sleep)
AttemptSucceeds(resp) ==
    /\ LoadsObject(CleanFences(resp))
    /\ HasRequiredKeys(resp.doc)
    /\ ComparableValues(resp.doc)

\* A text is the set of words it is written with; any(word in choice_lower
\* for word in [...])
AnyWord(choice_lower, words) == \E word \in words : word \in choice_lower

CashSpendWords == {"invest", "purchase", "buy", "spend"}
CashSaveWords == {"save", "reduce cost", "minimize"}
CustomerWords == {"customer", "service", "experience", "quality"}
GrowthWords == {"expand", "grow", "improve", "upgrade"}
RiskSafeWords == {"safe", "secure", "protect"}
RiskRiskyWords == {"risky", "aggressive", "ambitious"}

\* random.randint(lo, hi): rnd picks the low end, the middle or the high end
RandInt(lo, hi, rnd) ==
    IF rnd = "lo" THEN lo ELSE IF rnd = "hi" THEN hi ELSE (lo + hi) \div 2

\* str.lower() on the words a choice text is written with
LowerWord(word) ==
    CASE word = "Invest" -> "invest"
      [] word = "SAFE" -> "safe"
      [] word = "Quality" -> "quality"
      [] OTHER -> word

\* choice_lower = choice_description.lower()
LowerText(text) == { LowerWord(word) : word \in text }

calculate_fallback_impacts(choice_description, rnd) ==
    LET choice_lower == LowerText(choice_description)
    IN  [cash_flow |->
            IF AnyWord(choice_lower, CashSpendWords)
            THEN RandInt(-25000, -10000, rnd.cash_flow)
            ELSE IF AnyWord(choice_lower, CashSaveWords)
            THEN RandInt(5000, 15000, rnd.cash_flow)
            ELSE 0,
         customer_satisfaction |->
            IF AnyWord(choice_lower, CustomerWords)
            THEN RandInt(5, 15, rnd.customer_satisfaction)
            ELSE 0,
         growth_potential |->
            IF AnyWord(choice_lower, GrowthWords)
            THEN RandInt(5, 15, rnd.growth_potential)
            ELSE 0,
         risk_level |->
            IF AnyWord(choice_lower, RiskSafeWords)
            THEN RandInt(-15, -5, rnd.risk_level)
            ELSE IF AnyWord(choice_lower, RiskRiskyWords)
            THEN RandInt(5, 15, rnd.risk_level)
            ELSE 0]

FallbackEngineAllTexts(scenario_description, choice_description, relevant_heuristics, rnd) ==
    calculate_fallback_impacts(scenario_description \cup choice_description, rnd)

\* _calculate_fallback_impacts(scenario_description, choice_description,
\* relevant_heuristics): only choice_description is read
FallbackEngine(scenario_description, choice_description, relevant_heuristics, rnd) ==
    calculate_fallback_impacts(choice_description, rnd)

\* for attempt in range(3): ... ; return self._calculate_fallback_impacts(...)
\* resps[i] is what the i-th request would come back with. The result holds
\* the returned delta, the number of requests made and whether the fallback
\* engine produced the delta.
RECURSIVE ImpactLoop(_, _, _, _)
ImpactLoop(attempt, resps, choice_description, rnd) ==
    IF attempt >= IMPACT_ATTEMPTS
    THEN [impacts |-> calculate_fallback_impacts(choice_description, rnd),
          requests |-> attempt, fallback |-> TRUE]
    ELSE IF AttemptSucceeds(resps[attempt + 1])
    THEN [impacts |-> ValidatedImpacts(resps[attempt + 1].doc),
          requests |-> attempt + 1, fallback |-> FALSE]
    ELSE ImpactLoop(attempt + 1, resps, choice_description, rnd)

calculate_metric_impacts(resps, choice_description, rnd) ==
    ImpactLoop(0, resps, choice_description, rnd)

-----------------------------------------------------------------------------
(* src/app.py: the session state after the initialisation at lines 38-72   *)

\* A scenario dict: the key paths it holds, whether its 'description' is a
\* string, the lowercase words that occur in the description, the aspect its
\* texts are about and its sub-module name
Scenario(keys, is_str, words, aspect, sub_module_name) ==
    [keys |-> keys, is_str |-> is_str, words |-> words, aspect |-> aspect,
     sub_module_name |-> sub_module_name]

NoScenario == Scenario({}, TRUE, {}, None, None)

\* current_impacts = None
NoImpacts == [metric \in {} |-> 0]

\* the record the option handlers store in last_choice (lines 480-486); no
\* line initialises last_choice, and it is read only after a choice
Choice(topic, option, scenario, impacts, heuristics) ==
    [topic |-> topic, choice |-> <<option, scenario.aspect>>,
     description |-> <<option, scenario.aspect>>,
     impacts |-> impacts, heuristics |-> heuristics]

NoChoice == Choice(<<>>, None, NoScenario, NoImpacts, <<>>)

SessionInit ==
    /\ step = 0
    /\ viewing_step = 0
    /\ business_profile = None
    /\ scenario_topics = <<>>
    /\ topics_generated = FALSE
    /\ current_topic = <<>>
    /\ current_scenario = NoScenario
    /\ decision_history = <<>>
    /\ business_metrics = INITIAL_METRICS
    /\ showing_decision_summary = FALSE
    /\ current_analysis = None
    /\ current_impacts = NoImpacts
    /\ last_choice = NoChoice
    /\ raised = "none"

-----------------------------------------------------------------------------
(* The metrics ledger on its own: apply_metric_impacts called again and    *)
(* again on the ledger, each time with a delta inside the MetricsDelta     *)
(* ranges. ret is the sequence of the deltas applied so far.               *)

MaxApplies == 5

Delta(c, s, g, r) ==
    [cash_flow |-> c, customer_satisfaction |-> s,
     growth_potential |-> g, risk_level |-> r]

InRange(impacts) ==
    /\ impacts.cash_flow >= CASH_MIN /\ impacts.cash_flow <= CASH_MAX
    /\ \A metric \in PercentKeys :
          impacts[metric] >= PCT_MIN /\ impacts[metric] <= PCT_MAX

DeltaSamples ==
    { Delta(-20000, 10, 8, -5),
      Delta(-50000, -25, -25, 25),
      Delta(25000, 25, 25, -25),
      Delta(-50000, 25, -5, -25),
      Delta(0, 0, 0, 0),
      Delta(5000, -7, 25, 3) }

MetricsInit ==
    /\ SessionInit
    /\ arg = Delta(0, 0, 0, 0)
    /\ ret = <<>>
    /\ calls = 0

ApplyImpacts ==
    /\ calls < MaxApplies
    /\ \E impacts \in DeltaSamples :
          /\ InRange(impacts)
          /\ ~ApplyRaises(business_metrics, impacts)
          /\ business_metrics' = apply_metric_impacts(business_metrics, impacts)
          /\ arg' = impacts
          /\ ret' = Append(ret, impacts)
    /\ calls' = calls + 1
    /\ UNCHANGED <<step, viewing_step, business_profile, scenario_topics,
                   topics_generated, current_topic, current_scenario,
                   decision_history, showing_decision_summary,
                   current_analysis, current_impacts, last_choice, raised>>

MetricsNext == ApplyImpacts

SpecMetrics == MetricsInit /\ [][MetricsNext]_vars

RECURSIVE SumOf(_, _)
SumOf(deltas, metric) ==
    IF deltas = <<>> THEN 0
    ELSE deltas[1][metric] + SumOf(Tail(deltas), metric)

\* C2: after any sequence of apply_metric_impacts calls from the initial
\* metrics, with every delta inside the MetricsDelta ranges, the three
\* percentage metrics are in [0, 100] and cash_flow is the initial cash plus
\* the plain sum of the cash deltas, never clamped.
C2_PercentagesBounded ==
    /\ \A metric \in PercentKeys :
          business_metrics[metric] >= 0 /\ business_metrics[metric] <= 100
    /\ business_metrics.cash_flow
          = INITIAL_METRICS.cash_flow + SumOf(ret, "cash_flow")

\* a ledger whose cash has gone negative and whose satisfaction was held at
\* a bound that the plain sum of its deltas passes
C2_Witness ==
    /\ calls > 0
    /\ business_metrics.cash_flow < 0
    /\ \E metric \in PercentKeys :
          LET plain == INITIAL_METRICS[metric] + SumOf(ret, metric)
          IN  (plain < 0 \/ plain > 100) /\ business_metrics[metric] \in {0, 100}

\* the exact value n / 10000 rounded to the nearest integer, a fractional
\* part of 0.5 or more going up, limited to [0, 100]
HealthRounded(n) == Max(0, Min(100, (n + 5000) \div 10000))

\* C11: for every metrics state calculate_business_health returns
\* 100 x (0.4 x min(cash/100000, 1) + 0.3 x satisfaction/100
\* + 0.2 x growth/100 - 0.1 x risk/100) rounded to the nearest integer and
\* limited to [0, 100]: a fractional part of 0.5 or more is rounded up.
C11_RoundedToNearest ==
    HealthRounded(HealthNumerator(business_metrics))
        \in calculate_business_health(business_metrics)

EndToEndState == Delta(80000, 60, 58, 25)

\* C10 as the specification states it: the end-to-end state scores 59 and
\* that score has the status "Stable".
C10_Original ==
    business_metrics = EndToEndState =>
        \A health_score \in calculate_business_health(business_metrics) :
            health_score = 59 /\ get_business_status(health_score) = "Stable"

\* C10 (amended): for the end-to-end state {80000, 60, 58, 25} the health
\* score of calculate_business_health is 59, and get_business_status of that
\* score is "Challenged", "Stable" needing a score of at least 60.
C10_EndToEndHealth ==
    business_metrics = EndToEndState =>
        /\ calculate_business_health(business_metrics) = {59}
        /\ get_business_status(59) = "Challenged"
        /\ get_business_status(60) = "Stable"

\* the end-to-end state, reached by applying {-20000, +10, +8, -5}
C10_Witness ==
    /\ business_metrics = EndToEndState
    /\ ret = <<Delta(-20000, 10, 8, -5)>>

-----------------------------------------------------------------------------
(* The Impact Calculator on its own: arg holds what each of the three      *)
(* requests would come back with, the choice text and the random draws of  *)
(* the fallback engine; ret is the result of the one call.                 *)

GoodDoc ==
    [cash_flow |-> JNum(-20000), customer_satisfaction |-> JNum(10),
     growth_potential |-> JNum(8), risk_level |-> JNum(-5)]

\* every value outside its range, below or above
LowDoc ==
    [cash_flow |-> JNum(-60000), customer_satisfaction |-> JNum(-26),
     growth_potential |-> JNum(-40), risk_level |-> JNum(-100)]

HighDoc ==
    [cash_flow |-> JNum(25001), customer_satisfaction |-> JNum(26),
     growth_potential |-> JNum(90), risk_level |-> JNum(25)]

\* a key is missing
MissingDoc ==
    [cash_flow |-> JNum(1000), customer_satisfaction |-> JNum(5),
     growth_potential |-> JNum(5)]

\* all four keys, one value null or a string
NullDoc ==
    [cash_flow |-> JNum(1000), customer_satisfaction |-> JNum(5),
     growth_potential |-> JNum(5), risk_level |-> JOther]

\* all four keys and one more
ExtraDoc ==
    [cash_flow |-> JNum(5000), customer_satisfaction |-> JNum(-3),
     growth_potential |-> JNum(30), risk_level |-> JNum(0),
     rationale |-> JOther]

ImpactResps ==
    { ImpactResp("exception", FALSE, NoDoc),
      ImpactResp("status", FALSE, NoDoc),
      ImpactResp("notjson", FALSE, NoDoc),
      ImpactResp("empty", FALSE, NoDoc),
      ImpactResp("badjson", FALSE, NoDoc),
      ImpactResp("nondict", FALSE, NoDoc),
      ImpactResp("dict", FALSE, GoodDoc),
      ImpactResp("dict", TRUE, LowDoc),
      ImpactResp("dict", FALSE, HighDoc),
      ImpactResp("dict", FALSE, MissingDoc),
      ImpactResp("dict", FALSE, NullDoc),
      ImpactResp("dict", FALSE, ExtraDoc) }

\* choice texts by the trigger words they hold
ChoiceTexts ==
    { {}, {"invest"}, {"spend", "save"}, {"minimize", "quality"},
      {"Invest", "ovens"}, {"SAFE", "Quality", "reduce cost"},
      {"customer", "upgrade", "protect"}, {"secure", "risky"},
      {"ambitious", "grow"}, {"buy", "service", "expand", "aggressive"} }

\* the draws of random.randint, one per metric
RandomDraws ==
    { [metric \in MetricKeys |-> r] : r \in {"lo", "mid", "hi"} }

ImpactsInit ==
    /\ SessionInit
    /\ arg \in [resps : [1..IMPACT_ATTEMPTS -> ImpactResps],
                choice_description : ChoiceTexts,
                rnd : RandomDraws]
    /\ ret = None
    /\ calls = 0

CallCalculateMetricImpacts ==
    /\ calls = 0
    /\ ret' = calculate_metric_impacts(arg.resps, arg.choice_description, arg.rnd)
    /\ calls' = 1
    /\ UNCHANGED <<arg, step, viewing_step, business_profile, scenario_topics,
                   topics_generated, current_topic, current_scenario,
                   decision_history, business_metrics, showing_decision_summary,
                   current_analysis, current_impacts, last_choice, raised>>

ImpactsNext == CallCalculateMetricImpacts

SpecImpacts == ImpactsInit /\ [][ImpactsNext]_vars

\* C1: every delta calculate_metric_impacts returns, from a model response
\* or from the fallback engine, has the four metric keys, cash_flow in
\* [-50000, 25000] and the other three in [-25, 25].
C1_DeltaInRange ==
    calls = 1 =>
        /\ \A metric \in MetricKeys : metric \in DOMAIN ret.impacts
        /\ ret.impacts.cash_flow >= -50000 /\ ret.impacts.cash_flow <= 25000
        /\ \A metric \in PercentKeys :
              ret.impacts[metric] >= -25 /\ ret.impacts[metric] <= 25

\* a delta taken from a model response whose values were all out of range
C1_Witness ==
    /\ calls = 1
    /\ ~ret.fallback
    /\ arg.resps[ret.requests].doc = LowDoc
    /\ ret.impacts = Delta(-50000, -25, -25, -25)

\* the response is a success whose text is valid JSON holding all four keys
HoldsFourKeys(resp) ==
    resp.kind = "dict" /\ \A metric \in MetricKeys : metric \in DOMAIN resp.doc

\* ... and each of the four values is a number
HoldsFourNumbers(resp) ==
    HoldsFourKeys(resp) /\ \A metric \in MetricKeys : resp.doc[metric].t = "num"

\* the first of the three attempts that satisfies Good, 0 when none does
FirstAttempt(resps, Good(_)) ==
    IF \E i \in 1..IMPACT_ATTEMPTS : Good(resps[i])
    THEN CHOOSE i \in 1..IMPACT_ATTEMPTS :
            Good(resps[i]) /\ \A j \in 1..(i - 1) : ~Good(resps[j])
    ELSE 0

ClampedTo(doc, impacts) ==
    \A metric \in MetricKeys :
        impacts[metric] =
            IF metric = "cash_flow"
            THEN Max(-50000, Min(25000, doc[metric].v))
            ELSE Max(-25, Min(25, doc[metric].v))

\* C5 as the specification states it: the first attempt whose response is
\* valid JSON holding all four keys ends the call with its delta, and the
\* fallback engine runs exactly when no attempt is of that kind.
C5_Original ==
    calls = 1 =>
        LET first == FirstAttempt(arg.resps, HoldsFourKeys)
        IN  /\ ret.requests <= 3
            /\ ret.fallback <=> (first = 0)
            /\ first # 0 => /\ ret.requests = first
                            /\ ClampedTo(arg.resps[first].doc, ret.impacts)

\* C5 (amended): calculate_metric_impacts makes at most 3 attempts in
\* sequence; it returns the clamped delta of the first attempt whose
\* response is a success with valid JSON holding all four keys with numeric
\* values and makes no further attempt; every other attempt (client failure,
\* non-success status, empty result, parse error, missing key, a value that
\* is not a number) leads to the next one; the fallback engine produces the
\* delta if and only if all 3 attempts failed.
C5_FirstGoodAttempt ==
    calls = 1 =>
        LET first == FirstAttempt(arg.resps, HoldsFourNumbers)
        IN  /\ ret.requests <= 3
            /\ ret.fallback <=> (first = 0)
            /\ first = 0 =>
                  /\ ret.requests = 3
                  /\ ret.impacts =
                        calculate_fallback_impacts(arg.choice_description, arg.rnd)
            /\ first # 0 =>
                  /\ ret.requests = first
                  /\ ClampedTo(arg.resps[first].doc, ret.impacts)

\* two failed attempts, one of them holding all four keys with a null
\* value, and a third attempt that succeeds
C5_Witness ==
    /\ calls = 1
    /\ ~ret.fallback
    /\ ret.requests = 3
    /\ arg.resps[1].doc = NullDoc
    /\ arg.resps[2].kind = "status"

-----------------------------------------------------------------------------
(* src/heuristics.py: the Heuristic Selector                               *)

\* A string with or without surrounding whitespace around its core text
Str(pad, core) == [pad |-> pad, core |-> core]

\* str.strip()
Strip(s) == [s EXCEPT !.pad = FALSE]

\* the ids the catalog file may define, in file order
HeuristicPool == <<"h1", "h2", "h3", "h4", "h5", "h6">>

\* the catalog self.heuristics of a model file that defines n heuristics
Catalog(n) == { HeuristicPool[i] : i \in 1..Min(n, Len(HeuristicPool)) }

\* What the request of get_relevant_heuristics can come back with:
\*   exception  requests.post (or the secrets lookup) raises
\*   status     status_code is not 200
\*   notjson    response.json() raises, the body is no JSON object, or its
\*              'object' is not a string
\*   text       'object' is a string (absent: the empty string), given by
\*              its comma-separated segments
SelectResp(kind, segments) == [kind |-> kind, segments |-> segments]

RECURSIVE SelectIdsUnchecked(_, _)
SelectIdsUnchecked(segments, heuristics) ==
    IF segments = <<>> THEN <<>>
    ELSE <<Strip(segments[1]).core>> \o SelectIdsUnchecked(Tail(segments), heuristics)

\* the loop of lines 54-63: every segment whose stripped text is a catalog
\* id appends that heuristic, in order, repeats included
RECURSIVE SelectIds(_, _)
SelectIds(segments, heuristics) ==
    IF segments = <<>> THEN <<>>
    ELSE LET heuristic_id == Strip(segments[1]).core
             rest == SelectIds(Tail(segments), heuristics)
         IN  IF heuristic_id \in heuristics
             THEN <<heuristic_id>> \o rest
             ELSE rest

\* random.sample(list(self.heuristics.keys()), k=min(3, len(self.heuristics))):
\* the sequences of k distinct catalog ids
RandomSamples(heuristics) ==
    LET k == Min(3, Cardinality(heuristics))
    IN  { q \in [1..k -> heuristics] :
            \A i, j \in 1..k : i # j => q[i] # q[j] }

\* The heuristics returned (by id). The random fallback is inside the
\* except clause only: a non-success status skips the if and returns the
\* empty list, and a text with no valid id returns the empty list too.
get_relevant_heuristics(heuristics, resp, sample) ==
    IF resp.kind \in {"exception", "notjson"}
    THEN [relevant_heuristics |-> sample, fallback |-> TRUE]
    ELSE IF resp.kind = "status"
    THEN [relevant_heuristics |-> <<>>, fallback |-> FALSE]
    ELSE [relevant_heuristics |-> SelectIds(resp.segments, heuristics),
          fallback |-> FALSE]

-----------------------------------------------------------------------------
(* The Heuristic Selector on its own: arg holds the catalog size, what the *)
(* request comes back with and the draw of random.sample.                  *)

MaxCatalog == 4
MaxIds == 3

Segments == { Str(FALSE, "h1"), Str(TRUE, "h2"), Str(FALSE, "zz"), Str(FALSE, "") }

SegmentLists == UNION { [1..len -> Segments] : len \in 1..MaxIds }

SelectResps ==
    { SelectResp("exception", <<>>), SelectResp("status", <<>>),
      SelectResp("notjson", <<>>) }
    \cup { SelectResp("text", segs) : segs \in SegmentLists }

SelectInit ==
    /\ SessionInit
    /\ \E n \in 0..MaxCatalog :
          arg \in [n : {n}, resp : SelectResps, sample : RandomSamples(Catalog(n))]
    /\ ret = None
    /\ calls = 0

CallGetRelevantHeuristics ==
    /\ calls = 0
    /\ ret' = get_relevant_heuristics(Catalog(arg.n), arg.resp, arg.sample)
    /\ calls' = 1
    /\ UNCHANGED <<arg, step, viewing_step, business_profile, scenario_topics,
                   topics_generated, current_topic, current_scenario,
                   decision_history, business_metrics, showing_decision_summary,
                   current_analysis, current_impacts, last_choice, raised>>

SelectNext == CallGetRelevantHeuristics

SpecSelect == SelectInit /\ [][SelectNext]_vars

Distinct(q) == \A i, j \in 1..Len(q) : i # j => q[i] # q[j]

\* the selection failed: the request raised, returned a non-success status,
\* returned an empty result, or none of the returned ids is in the catalog
SelectionFailed(heuristics, resp) ==
    \/ resp.kind \in {"exception", "notjson", "status"}
    \/ /\ resp.kind = "text"
       /\ \A i \in 1..Len(resp.segments) :
             [resp.segments[i] EXCEPT !.pad = FALSE].core \notin heuristics

\* C4: on any failure of the selection get_relevant_heuristics returns
\* exactly min(3, catalog size) distinct catalog heuristics.
C4_FallbackOnAnyFailure ==
    (calls = 1 /\ SelectionFailed(Catalog(arg.n), arg.resp)) =>
        /\ Len(ret.relevant_heuristics) = Min(3, Cardinality(Catalog(arg.n)))
        /\ Distinct(ret.relevant_heuristics)
        /\ \A i \in 1..Len(ret.relevant_heuristics) :
              ret.relevant_heuristics[i] \in Catalog(arg.n)

\* C4 holds where the request raised: the except clause samples
C4_RaisedCase ==
    (calls = 1 /\ arg.resp.kind \in {"exception", "notjson"}) =>
        /\ Len(ret.relevant_heuristics) = Min(3, Cardinality(Catalog(arg.n)))
        /\ Distinct(ret.relevant_heuristics)

-----------------------------------------------------------------------------
(* src/generator.py: the Response Parser and the Completion Client         *)

EmptyStr == Str(FALSE, "")

\* One line of response.text.split('\n'):
\*   blank      an empty line
\*   text       a line that does not start with 'data:' and is not JSON
\*   json       a line that does not start with 'data:' and is a JSON object
\*   data_bad   'data:' followed by text that json.loads rejects
\*   data_json  'data:' followed by a JSON object
\* A JSON object holds 'message' and 'object' strings, each or neither.
Line(kind, has_message, message, has_object, object) ==
    [kind |-> kind, has_message |-> has_message, message |-> message,
     has_object |-> has_object, object |-> object]

\* line.startswith('data:')
IsData(line) == line.kind \in {"data_bad", "data_json"}

\* [line for line in response_text.split('\n') if line.startswith('data:')]
Chunks(response_text) == SelectSeq(response_text, IsData)

\* json.loads(chunk[5:].strip()) does not raise JSONDecodeError
Decodes(chunk) == chunk.kind = "data_json"

\* 'loader' in data['message']: the core text holds the word
ContainsLoader(s) == s.core = "loader"

IsMarkerLoaderOnly(chunk) == chunk.has_message /\ ContainsLoader(chunk.message)

\* 'message' in data and ('loader' in data['message'] or data['message'] == '[DONE]')
IsMarker(chunk) ==
    chunk.has_message
    /\ (ContainsLoader(chunk.message) \/ chunk.message = Str(FALSE, "[DONE]"))

\* the values the parser and the client return: None, the raw body, or the
\* (stripped) text of a payload field
NoneResult == [kind |-> "None", text |-> EmptyStr, body |-> <<>>]
RawText(response_text) == [kind |-> "raw", text |-> EmptyStr, body |-> response_text]
PayloadText(s) == [kind |-> "payload", text |-> s, body |-> <<>>]

\* for chunk in reversed(chunks): the index of the chunk the loop stops at,
\* 0 when it runs to the end
RECURSIVE ScanForward(_, _)
ScanForward(chunks, i) ==
    IF i > Len(chunks) THEN 0
    ELSE IF ~Decodes(chunks[i]) THEN ScanForward(chunks, i + 1)
    ELSE IF IsMarker(chunks[i]) THEN ScanForward(chunks, i + 1)
    ELSE IF chunks[i].has_message \/ chunks[i].has_object THEN i
    ELSE ScanForward(chunks, i + 1)

ScanFromFirst(chunks, i) == ScanForward(chunks, 1)

RECURSIVE ScanReversed(_, _)
ScanReversed(chunks, i) ==
    IF i < 1 THEN 0
    ELSE IF ~Decodes(chunks[i]) THEN ScanReversed(chunks, i - 1)
    ELSE IF IsMarker(chunks[i]) THEN ScanReversed(chunks, i - 1)
    ELSE IF chunks[i].has_message \/ chunks[i].has_object THEN i
    ELSE ScanReversed(chunks, i - 1)

\* if 'message' in data: ... data['message'] / if 'object' in data: ... data['object']
PayloadOf(chunk) ==
    IF chunk.has_message THEN chunk.message ELSE chunk.object

parse_streaming_response(response_text) ==
    LET chunks == Chunks(response_text)
        found == ScanReversed(chunks, Len(chunks))
    IN  IF chunks = <<>>
        THEN RawText(response_text)
        ELSE IF found = 0
        THEN PayloadText(Strip(EmptyStr))
        ELSE PayloadText(Strip(PayloadOf(chunks[found])))

\* perspective_variations of get_random_prompt_variation, by position
Personas == 1..5

\* What one requests.post of make_api_call can come back with: an exception,
\* a status that is not 200, or status 200 with a body
ApiResp(kind, response_text) == [kind |-> kind, response_text |-> response_text]

\* The loop of make_api_call. resps[i] is what the i-th request comes back
\* with, draws[i] the persona random.choice picks after the i-th attempt.
\* A prompt is the sequence of persona phrases in front of the caller's
\* prompt; sent is the sequence of the prompts sent so far.
RECURSIVE ApiLoop(_, _, _, _, _, _)
ApiLoop(attempt, resps, max_retries, draws, prompt, sent) ==
    IF attempt >= max_retries
    THEN [result |-> NoneResult, requests |-> Len(sent), sent |-> sent]
    ELSE
      LET resp == resps[attempt + 1]
          sent1 == Append(sent, prompt)
          chunks == Chunks(resp.response_text)
          found == ScanReversed(chunks, Len(chunks))
          next_prompt == IF attempt < max_retries - 1
                         THEN <<draws[attempt + 1]>> \o prompt
                         ELSE prompt
      IN  IF resp.kind = "ok" /\ chunks = <<>>
          THEN [result |-> RawText(resp.response_text),
                requests |-> Len(sent1), sent |-> sent1]
          ELSE IF resp.kind = "ok" /\ found # 0
          THEN [result |-> PayloadText(Strip(PayloadOf(chunks[found]))),
                requests |-> Len(sent1), sent |-> sent1]
          ELSE ApiLoop(attempt + 1, resps, max_retries, draws, next_prompt, sent1)

make_api_call_once(resps, max_retries, draws) ==
    ApiLoop(0, resps, Min(1, max_retries), draws, <<>>, <<>>)

make_api_call(resps, max_retries, draws) ==
    ApiLoop(0, resps, max_retries, draws, <<>>, <<>>)

-----------------------------------------------------------------------------
(* The Response Parser on its own: arg is a raw response body, given to    *)
(* parse_streaming_response and, as the answer to its only request, to     *)
(* make_api_call, which carries the same parsing code inline.              *)

MaxLines == 3

Hello == Str(FALSE, "hello")
World == Str(FALSE, "world")

DataJson(has_message, message, has_object, object) ==
    Line("data_json", has_message, message, has_object, object)

LineSamples ==
    { Line("blank", FALSE, EmptyStr, FALSE, EmptyStr),
      Line("text", FALSE, EmptyStr, FALSE, EmptyStr),
      Line("json", FALSE, EmptyStr, TRUE, Hello),
      Line("json", TRUE, World, FALSE, EmptyStr),
      Line("data_bad", FALSE, EmptyStr, FALSE, EmptyStr),
      DataJson(FALSE, EmptyStr, FALSE, EmptyStr),
      DataJson(TRUE, Hello, FALSE, EmptyStr),
      DataJson(TRUE, Str(TRUE, "padded"), FALSE, EmptyStr),
      DataJson(FALSE, EmptyStr, TRUE, World),
      DataJson(TRUE, Str(FALSE, "first"), TRUE, Str(FALSE, "second")),
      DataJson(TRUE, Str(FALSE, "loader"), FALSE, EmptyStr),
      DataJson(TRUE, Str(TRUE, "loader"), TRUE, World),
      DataJson(TRUE, Str(FALSE, "[DONE]"), FALSE, EmptyStr) }

Bodies == UNION { [1..len -> LineSamples] : len \in 1..MaxLines }

ParseInit ==
    /\ SessionInit
    /\ arg \in Bodies
    /\ ret = None
    /\ calls = 0

CallParseStreamingResponse ==
    /\ calls = 0
    /\ ret' = [parsed |-> parse_streaming_response(arg),
               client |-> make_api_call(<<ApiResp("ok", arg)>>, 1, <<1>>)]
    /\ calls' = 1
    /\ UNCHANGED <<arg, step, viewing_step, business_profile, scenario_topics,
                   topics_generated, current_topic, current_scenario,
                   decision_history, business_metrics, showing_decision_summary,
                   current_analysis, current_impacts, last_choice, raised>>

ParseNext == CallParseStreamingResponse

SpecParse == ParseInit /\ [][ParseNext]_vars

HasStreamLine(response_text) ==
    \E i \in 1..Len(response_text) :
        response_text[i].kind \in {"data_bad", "data_json"}

\* a stream line that decodes as JSON, carries a payload field and is
\* neither a loader marker nor the '[DONE]' sentinel
Usable(line) ==
    /\ line.kind = "data_json"
    /\ line.has_message \/ line.has_object
    /\ ~(line.has_message /\ line.message.core = "loader")
    /\ ~(line.has_message /\ line.message = [pad |-> FALSE, core |-> "[DONE]"])

HasUsable(response_text) ==
    \E i \in 1..Len(response_text) : Usable(response_text[i])

\* the latest usable line of the body
LatestUsable(response_text) ==
    response_text[CHOOSE i \in 1..Len(response_text) :
        /\ Usable(response_text[i])
        /\ \A j \in (i + 1)..Len(response_text) : ~Usable(response_text[j])]

MessageFirst(line) == IF line.has_message THEN line.message ELSE line.object

\* C7 as the specification states it: with stream lines in the body, the
\* text returned is the payload of the latest usable chunk, 'message' before
\* 'object'.
C7_Original ==
    (calls = 1 /\ HasStreamLine(arg) /\ HasUsable(arg)) =>
        /\ ret.parsed.kind = "payload"
        /\ ret.parsed.text = MessageFirst(LatestUsable(arg))
        /\ ret.client.result = ret.parsed

\* C7 (amended): with stream lines in the body, the parser scans them from
\* the last to the first and returns the payload, stripped of surrounding
\* whitespace, of the latest chunk that decodes as JSON, carries 'message'
\* or 'object' and is neither a loader marker nor the '[DONE]' sentinel,
\* taking 'message' in preference to 'object'; malformed and marker chunks
\* are skipped and never abort the parse, and an earlier usable chunk is
\* never returned when a later usable chunk exists. parse_streaming_response
\* and the copy of the scan inside make_api_call agree on it.
C7_LatestUsableChunk ==
    (calls = 1 /\ HasStreamLine(arg) /\ HasUsable(arg)) =>
        /\ ret.parsed.kind = "payload"
        /\ ret.parsed.text =
              [MessageFirst(LatestUsable(arg)) EXCEPT !.pad = FALSE]
        /\ ret.client.result = ret.parsed

\* an earlier usable chunk, then a later usable chunk holding both fields,
\* then a marker: the later chunk's 'message' is returned
C7_Witness ==
    /\ calls = 1
    /\ Len(arg) = 3
    /\ arg[1] = DataJson(TRUE, Hello, FALSE, EmptyStr)
    /\ arg[2] = DataJson(TRUE, Str(FALSE, "first"), TRUE, Str(FALSE, "second"))
    /\ arg[3] = DataJson(TRUE, Str(FALSE, "[DONE]"), FALSE, EmptyStr)
    /\ ret.parsed.text = Str(FALSE, "first")

\* the body is one plain JSON object with a payload field
PlainJsonBody(response_text) ==
    /\ Len(response_text) = 1
    /\ response_text[1].kind = "json"
    /\ response_text[1].has_message \/ response_text[1].has_object

\* C8: with no stream line in the body, the parser treats the body as a
\* plain JSON object and returns the value of its payload field, not the
\* raw body text.
C8_PlainJsonPayload ==
    (calls = 1 /\ ~HasStreamLine(arg) /\ PlainJsonBody(arg)) =>
        /\ ret.parsed.kind = "payload"
        /\ ret.parsed.text \in {arg[1].object, arg[1].message}
        /\ ret.client.result.kind = "payload"

-----------------------------------------------------------------------------
(* The Completion Client on its own: arg holds max_retries, what each      *)
(* request would come back with and the persona drawn after each attempt.  *)

MaxRetries == 3

Loader == DataJson(TRUE, Str(FALSE, "loader"), FALSE, EmptyStr)
Done == DataJson(TRUE, Str(FALSE, "[DONE]"), FALSE, EmptyStr)

ApiBodies ==
    { <<Line("blank", FALSE, EmptyStr, FALSE, EmptyStr)>>,
      <<Line("text", FALSE, EmptyStr, FALSE, EmptyStr)>>,
      <<Line("json", FALSE, EmptyStr, TRUE, Hello)>>,
      <<Loader, Done>>,
      <<Line("data_bad", FALSE, EmptyStr, FALSE, EmptyStr)>>,
      <<Loader, DataJson(TRUE, Hello, FALSE, EmptyStr), Done>>,
      <<DataJson(FALSE, EmptyStr, TRUE, Str(TRUE, "padded")), Loader>>,
      <<DataJson(TRUE, EmptyStr, FALSE, EmptyStr)>> }

ApiResps ==
    { ApiResp("exception", <<>>), ApiResp("status", <<Done>>) }
    \cup { ApiResp("ok", body) : body \in ApiBodies }

PersonaSamples == {1, 5}

ApiInit ==
    /\ SessionInit
    /\ \E n \in 0..MaxRetries :
          arg \in [max_retries : {n}, resps : [1..n -> ApiResps],
                   draws : [1..n -> PersonaSamples]]
    /\ ret = None
    /\ calls = 0

CallMakeApiCall ==
    /\ calls = 0
    /\ ret' = make_api_call(arg.resps, arg.max_retries, arg.draws)
    /\ calls' = 1
    /\ UNCHANGED <<arg, step, viewing_step, business_profile, scenario_topics,
                   topics_generated, current_topic, current_scenario,
                   decision_history, business_metrics, showing_decision_summary,
                   current_analysis, current_impacts, last_choice, raised>>

ApiNext == CallMakeApiCall

SpecApi == ApiInit /\ [][ApiNext]_vars

\* the attempt failed by exception or by a non-success status
TransportFailed(resp) == resp.kind \in {"exception", "status"}

\* ... or its stream lines hold no usable chunk
AttemptFailed(resp) ==
    \/ TransportFailed(resp)
    \/ HasStreamLine(resp.response_text) /\ ~HasUsable(resp.response_text)

FirstOf(n, resps, Failed(_)) ==
    IF \E i \in 1..n : ~Failed(resps[i])
    THEN CHOOSE i \in 1..n : ~Failed(resps[i]) /\ \A j \in 1..(i - 1) : Failed(resps[j])
    ELSE 0

-----------------------------------------------------------------------------
(* src/generator.py: the Scenario Generator                                *)

\* A topic is the sequence of its whitespace-separated words (topic.split())
Lower(word) ==
    CASE word = "Fleet" -> "fleet"
      [] word = "FLEET" -> "fleet"
      [] word = "Management" -> "management"
      [] word = "Staff" -> "staff"
      [] word = "Marketing" -> "marketing"
      [] word = "Strategy" -> "strategy"
      [] word = "Vehicle" -> "vehicle"
      [] word = "Employee" -> "employee"
      [] word = "Financial" -> "financial"
      [] word = "Planning" -> "planning"
      [] word = "Customer" -> "customer"
      [] word = "Service" -> "service"
      [] word = "Technology" -> "technology"
      [] word = "Implementation" -> "implementation"
      [] OTHER -> word

\* key in lower: the lowercase word holds the key as a substring
HoldsSubstring(lower, key) ==
    lower = key \/ (lower = "marketing" /\ key = "market")

\* key in topic_lower
TopicHolds(topic, key) ==
    \E i \in 1..Len(topic) : HoldsSubstring(Lower(topic[i]), key)

TopicWords(topic) == { Lower(topic[i]) : i \in 1..Len(topic) }

ScenarioPaths ==
    {"description", "option_a.title", "option_a.description",
     "option_b.title", "option_b.description", "sub_module_name"}

\* the (subtitle, sub-module name) pairs of the four fallback tables
FleetAspects ==
    << <<"Route Optimization", "Fleet Efficiency Planning">>,
       <<"Maintenance Schedule", "Vehicle Maintenance Strategy">>,
       <<"Vehicle Acquisition", "Fleet Expansion Decisions">>,
       <<"Driver Training", "Team Development Focus">>,
       <<"Fuel Efficiency", "Resource Management Planning">> >>

StaffAspects ==
    << <<"Training Program", "Staff Development Framework">>,
       <<"Compensation", "Team Compensation Strategy">>,
       <<"Scheduling", "Workforce Schedule Planning">>,
       <<"Development", "Career Growth Initiatives">>,
       <<"Team Building", "Team Culture Building">> >>

MarketAspects ==
    << <<"Target Analysis", "Market Research Phase">>,
       <<"Promotion Strategy", "Marketing Channel Selection">>,
       <<"Pricing Model", "Price Strategy Development">>,
       <<"Service Offering", "Service Portfolio Planning">>,
       <<"Growth Plan", "Expansion Strategy Design">> >>

GenericAspects ==
    << <<"Initial Strategy", "Strategic Foundation Setting">>,
       <<"Resource Allocation", "Resource Planning Phase">>,
       <<"Process Implementation", "Implementation Approach">>,
       <<"Team Structure", "Organizational Design">>,
       <<"Future Planning", "Growth Strategy Planning">> >>

AspectsFor(topic) ==
    IF TopicHolds(topic, "fleet") \/ TopicHolds(topic, "vehicle") THEN FleetAspects
    ELSE IF TopicHolds(topic, "staff") \/ TopicHolds(topic, "employee") THEN StaffAspects
    ELSE IF TopicHolds(topic, "market") THEN MarketAspects
    ELSE GenericAspects

generate_fallback_scenario_off_by_one(topic, step_number) ==
    LET aspects == AspectsFor(topic)
        aspect == aspects[Min(step_number, Len(aspects) - 1) + 1]
    IN  Scenario(ScenarioPaths, TRUE, TopicWords(topic), aspect[1], aspect[2])

\* aspects[min(step - 1, len(aspects) - 1)], for step >= 1
generate_fallback_scenario(topic, step_number) ==
    LET aspects == AspectsFor(topic)
        aspect == aspects[Min(step_number - 1, Len(aspects) - 1) + 1]
    IN  Scenario(ScenarioPaths, TRUE, TopicWords(topic), aspect[1], aspect[2])

\* What make_api_call hands to generate_topic_scenario, by what json.loads
\* makes of it:
\*   None       the failure signal
\*   empty      the empty text
\*   badjson    text that json.loads rejects
\*   nonobject  text that decodes to a list, a string, a number or null
\*   object     text that decodes to the JSON object doc
ScenarioResult(kind, doc) == [kind |-> kind, doc |-> doc]

\* any(word.lower() in scenario['description'].lower() for word in topic.split())
TopicGuard(topic, scenario) ==
    \E i \in 1..Len(topic) : Lower(topic[i]) \in scenario.words

Complete(scenario) == ScenarioPaths \ {"sub_module_name"} \subseteq scenario.keys

\* The value returned, or the exception that leaves the function: the
\* except clause catches JSONDecodeError and KeyError only, and the guard
\* reads scenario['description'] once for the first word of the topic.
generate_topic_scenario(topic, step_number, result) ==
    LET fallback == [raised |-> "none", fallback |-> TRUE,
                     scenario |-> generate_fallback_scenario(topic, step_number)]
    IN  IF result.kind \in {"None", "empty", "badjson"} THEN fallback
        ELSE IF topic = <<>> THEN fallback
        ELSE IF result.kind = "nonobject"
        THEN [raised |-> "TypeError", fallback |-> FALSE, scenario |-> NoScenario]
        ELSE IF "description" \notin result.doc.keys THEN fallback
        ELSE IF ~result.doc.is_str
        THEN [raised |-> "AttributeError", fallback |-> FALSE, scenario |-> NoScenario]
        ELSE IF TopicGuard(topic, result.doc)
        THEN [raised |-> "none", fallback |-> FALSE, scenario |-> result.doc]
        ELSE fallback

-----------------------------------------------------------------------------
(* The Scenario Generator on its own: arg holds the topic, the step and    *)
(* what make_api_call returned.                                            *)

MaxStep == 6

Topics ==
    { <<>>, <<"Fleet", "Management">>, <<"Staff", "Management">>,
      <<"Marketing", "Strategy">>, <<"Customer", "Service">>,
      <<"FLEET">>, <<"Employee", "Vehicle">> }

AllKeys == ScenarioPaths
NoOptionA == ScenarioPaths \ {"option_a.title", "option_a.description"}
NoTitleB == ScenarioPaths \ {"option_b.title"}
NoDescription == ScenarioPaths \ {"description"}

\* the descriptions a model may write, by the topic words they hold
WordSets == { {}, {"fleet"}, {"management", "staff"}, {"marketing"}, {"service"} }

ScenarioDocs ==
    { Scenario(keys, TRUE, words, "model", "Model Part") :
        keys \in {AllKeys, NoOptionA, NoTitleB, {"description"}},
        words \in WordSets }
    \cup { Scenario(NoDescription, TRUE, {}, "model", "Model Part"),
           Scenario(AllKeys, FALSE, {}, "model", "Model Part") }

ScenarioResults ==
    { ScenarioResult("None", NoScenario), ScenarioResult("empty", NoScenario),
      ScenarioResult("badjson", NoScenario), ScenarioResult("nonobject", NoScenario) }
    \cup { ScenarioResult("object", doc) : doc \in ScenarioDocs }

ScenarioInit ==
    /\ SessionInit
    /\ arg \in [topic : Topics, step : 1..MaxStep, result : ScenarioResults]
    /\ ret = None
    /\ calls = 0

CallGenerateTopicScenario ==
    /\ calls = 0
    /\ ret' = generate_topic_scenario(arg.topic, arg.step, arg.result)
    /\ calls' = 1
    /\ UNCHANGED <<arg, step, viewing_step, business_profile, scenario_topics,
                   topics_generated, current_topic, current_scenario,
                   decision_history, business_metrics, showing_decision_summary,
                   current_analysis, current_impacts, last_choice, raised>>

ScenarioNext == CallGenerateTopicScenario

SpecScenario == ScenarioInit /\ [][ScenarioNext]_vars

\* the completion succeeded, its text parsed as JSON, all Scenario keys are
\* present and a word of the topic occurs in the description
ModelScenarioValid(topic, result) ==
    /\ result.kind = "object"
    /\ {"description", "option_a.title", "option_a.description",
        "option_b.title", "option_b.description"} \subseteq result.doc.keys
    /\ result.doc.is_str
    /\ \E i \in 1..Len(topic) : Lower(topic[i]) \in result.doc.words

\* C9: generate_topic_scenario returns the model's scenario only when it is
\* valid (parsed, all keys present, topic guard passed); in every other case
\* it returns the fallback table scenario and does not raise, so every
\* returned scenario has a description and two complete options.
C9_ValidOrFallback ==
    calls = 1 =>
        /\ ret.raised = "none"
        /\ ~ret.fallback => ModelScenarioValid(arg.topic, arg.result)
        /\ ~ModelScenarioValid(arg.topic, arg.result) =>
              ret.scenario = generate_fallback_scenario(arg.topic, arg.step)
        /\ {"description", "option_a.title", "option_a.description",
            "option_b.title", "option_b.description"} \subseteq ret.scenario.keys

\* C9, the part that holds: a failed completion, text that is not JSON, a
\* missing description, a failed topic guard or a topic without words give
\* the fallback table scenario
C9_FallbackCases ==
    (calls = 1 /\ ret.fallback) =>
        /\ ret.raised = "none"
        /\ ret.scenario = generate_fallback_scenario(arg.topic, arg.step)

-----------------------------------------------------------------------------
(* src/generator.py: topics and the decision analysis, as the session      *)
(* calls them                                                              *)

base_topics ==
    << <<"Staff", "Management">>, <<"Marketing", "Strategy">>,
       <<"Financial", "Planning">>, <<"Customer", "Service">>,
       <<"Technology", "Implementation">> >>

\* What the topics request comes back with:
\*   exception  requests.post raises, or reading the chunks does
\*   status     status_code is not 200
\*   text       status 200; lines is topics_text.split('\n'), topics_text
\*              being the payload of the last usable chunk or, without any
\*              'data:' line, the body (no line when topics_text is empty)
\* A line is the sequence of its words: an enumeration prefix such as "1."
\* or "-" is a word of its own, and so is a leading "data:".
TopicsResp(kind, lines) == [kind |-> kind, lines |-> lines]

EnumerationWords == {"1.", "2.", "-", "*"}

\* lstrip('0123456789. -*') with the bullet: the leading enumeration words go
RECURSIVE LStrip(_)
LStrip(line) ==
    IF line # <<>> /\ Head(line) \in EnumerationWords
    THEN LStrip(Tail(line))
    ELSE line

\* if topic.strip()
NotBlank(line) == line # <<>>

\* lines 117-122 before the cut: blank lines dropped, each line stripped of
\* its prefix, then the empty results and the lines that start with 'data:'
\* dropped
CleanTopics(lines) ==
    LET kept == SelectSeq(lines, NotBlank)
        stripped == [i \in 1..Len(kept) |-> LStrip(kept[i])]
        Topic(t) == t # <<>> /\ Head(t) # "data:"
    IN  SelectSeq(stripped, Topic)

\* get_relevant_heuristics(self, scenario_description, choice_description)
SelectorParameters == 2

\* heuristics_model.get_relevant_heuristics(business_profile): a call with
\* nargs arguments raises TypeError unless the method takes that many
SelectorCallRaises(nargs) == nargs # SelectorParameters

\* name.replace("Heuristic", "").replace("Framework", "").strip(), then
\* "Decision" replaced by "Strategy" or " Initiative" appended
HeuristicTopic(heuristic) == <<heuristic, "Initiative">>

\* generate_fallback_topics: with a heuristics model the selector is called
\* inside a try, and any exception gives the base list
generate_fallback_topics(heuristics_model, relevant_heuristics) ==
    IF heuristics_model /\ ~SelectorCallRaises(1) /\ relevant_heuristics # <<>>
    THEN LET top == SubSeq(relevant_heuristics, 1, Min(2, Len(relevant_heuristics)))
             heuristic_topics == [i \in 1..Len(top) |-> HeuristicTopic(top[i])]
         IN  heuristic_topics \o SubSeq(base_topics, 1, 5 - Len(heuristic_topics))
    ELSE base_topics

generate_scenario_topics_uncut(heuristics_model, relevant_heuristics, resp) ==
    LET topics == CleanTopics(resp.lines)
    IN  IF heuristics_model /\ SelectorCallRaises(1)
        THEN [raised |-> "TypeError", topics |-> <<>>]
        ELSE IF resp.kind = "text" /\ topics # <<>>
        THEN [raised |-> "none", topics |-> topics]
        ELSE [raised |-> "none",
              topics |-> generate_fallback_topics(heuristics_model,
                                                  relevant_heuristics)]

\* generate_scenario_topics(business_profile, heuristics_model): the
\* selector call of line 54 is made before the try of line 77;
\* relevant_heuristics is what a selector call that returns would give
generate_scenario_topics(heuristics_model, relevant_heuristics, resp) ==
    LET topics == CleanTopics(resp.lines)
    IN  IF heuristics_model /\ SelectorCallRaises(1)
        THEN [raised |-> "TypeError", topics |-> <<>>]
        ELSE IF resp.kind = "text" /\ topics # <<>>
        THEN [raised |-> "none", topics |-> SubSeq(topics, 1, Min(7, Len(topics)))]
        ELSE [raised |-> "none",
              topics |-> generate_fallback_topics(heuristics_model,
                                                  relevant_heuristics)]

\* if result: (None and the empty text are falsy)
Truthy(result) ==
    IF result.kind = "None" THEN FALSE
    ELSE IF result.kind = "payload" THEN result.text # EmptyStr
    ELSE result.body # <<Line("blank", FALSE, EmptyStr, FALSE, EmptyStr)>>

\* generator.generate_decision_analysis: the model's text, else the
\* templated fallback analysis
generate_decision_analysis(result) ==
    IF Truthy(result) THEN "model analysis" ELSE "fallback analysis"

-----------------------------------------------------------------------------
(* src/app.py: the session. Every action is one button handler, run to its *)
(* st.rerun() or to the exception that leaves it; raised holds how the     *)
(* last handler ended.                                                     *)

MAX_DECISIONS == 5

\* st.session_state.step = 'summary'
SUMMARY == MAX_DECISIONS + 1

EXAMPLE_PROFILE == "EXAMPLE_PROFILE"

\* is_review (line 740) with decision_data found (line 400)
InReview ==
    /\ viewing_step # 0
    /\ viewing_step < step
    /\ viewing_step <= Len(decision_history)

DecisionPage == step \in 1..MAX_DECISIONS

\* the branch of display_decision_step that draws the two options
OptionsPage == DecisionPage /\ ~InReview /\ ~showing_decision_summary

\* lines 438-447 and 492-493 index the scenario: a missing key raises
\* KeyError while the page is drawn, before the button of that column
RendersOptionA ==
    {"description", "option_a.title", "option_a.description"}
        \subseteq current_scenario.keys

RendersOptionB ==
    /\ RendersOptionA
    /\ {"option_b.title", "option_b.description"} \subseteq current_scenario.keys

RenderRaises == OptionsPage /\ ~RendersOptionB

\* the lowercase trigger words in the description of an option: the
\* fallback table puts the aspect in it, a model writes its own text
OptionWords(scenario) ==
    CASE scenario.aspect = "Service Offering" -> {"service"}
      [] scenario.aspect = "Growth Plan" -> {"grow"}
      [] scenario.aspect = "model" -> {"invest", "customer"}
      [] OTHER -> {}

\* the dict appended to decision_history (lines 569-576)
HistoryEntry(choice, impacts, sub_module_name) ==
    [topic |-> choice.topic, choice |-> choice.choice,
     description |-> choice.description, impacts |-> impacts,
     heuristics |-> choice.heuristics, sub_module_name |-> sub_module_name]

\* What the session's requests come back with
SessionTopicsResps ==
    { TopicsResp("exception", <<>>),
      TopicsResp("text", << <<"1.", "Fleet", "Management">>, <<>> >>) }

\* the topic buttons the user clicks and the custom topics typed
TopicButtons == {1}
CustomTopics == { <<"Staff", "Management">> }

SessionWords == {"fleet", "management", "staff"}

SessionScenarioResults ==
    { ScenarioResult("None", NoScenario),
      ScenarioResult("nonobject", NoScenario),
      ScenarioResult("object", Scenario(AllKeys, TRUE, SessionWords, "model", "Model Part")),
      ScenarioResult("object", Scenario(NoOptionA, TRUE, SessionWords, "model", "Model Part")) }

SessionCatalog == Catalog(3)

\* one choice's requests: the selection, the fallback sample, the impact
\* attempts, the fallback draws and the analysis. In the first the
\* selection and the analysis fail and the third impact attempt succeeds;
\* in the second the selection is refused and the delta has a fifth key.
SessionOutcomes ==
    { [select |-> SelectResp("exception", <<>>), sample |-> <<"h1", "h2", "h3">>,
       impacts |-> << ImpactResp("exception", FALSE, NoDoc),
                      ImpactResp("status", FALSE, NoDoc),
                      ImpactResp("dict", FALSE, GoodDoc) >>,
       rnd |-> [metric \in MetricKeys |-> "mid"], analysis |-> NoneResult],
      [select |-> SelectResp("status", <<>>), sample |-> <<"h1", "h2", "h3">>,
       impacts |-> << ImpactResp("dict", FALSE, ExtraDoc),
                      ImpactResp("exception", FALSE, NoDoc),
                      ImpactResp("exception", FALSE, NoDoc) >>,
       rnd |-> [metric \in MetricKeys |-> "mid"], analysis |-> NoneResult] }

\* "Generate business profile" (lines 659-661)
GenerateBusinessProfile ==
    /\ step = 0
    /\ business_profile' = EXAMPLE_PROFILE
    /\ raised' = "none"
    /\ UNCHANGED <<step, viewing_step, scenario_topics, topics_generated,
                   current_topic, current_scenario, decision_history,
                   business_metrics, showing_decision_summary,
                   current_analysis, current_impacts, last_choice>>
    /\ UNCHANGED unitVars

\* "Generate Scenarios" with a profile in the text area (lines 677-683)
GenerateScenarios ==
    /\ step = 0
    /\ \E resp \in SessionTopicsResps :
          scenario_topics' = generate_scenario_topics(FALSE, <<>>, resp).topics
    /\ business_profile' = EXAMPLE_PROFILE
    /\ topics_generated' = TRUE
    /\ raised' = "none"
    /\ UNCHANGED <<step, viewing_step, current_topic, current_scenario,
                   decision_history, business_metrics,
                   showing_decision_summary, current_analysis,
                   current_impacts, last_choice>>
    /\ UNCHANGED unitVars

\* lines 707-714 and 721-728: the topic is stored, then the scenario is
\* generated; an exception leaves before step is set
StartTopic(topic, result) ==
    LET r == generate_topic_scenario(topic, 1, result)
    IN  /\ current_topic' = topic
        /\ raised' = r.raised
        /\ IF r.raised = "none"
           THEN current_scenario' = r.scenario /\ step' = 1
           ELSE UNCHANGED <<current_scenario, step>>
        /\ UNCHANGED <<viewing_step, business_profile, scenario_topics,
                       topics_generated, decision_history, business_metrics,
                       showing_decision_summary, current_analysis,
                       current_impacts, last_choice>>
        /\ UNCHANGED unitVars

TopicsShown == step = 0 /\ topics_generated /\ scenario_topics # <<>>

SelectTopic ==
    /\ TopicsShown
    /\ \E i \in TopicButtons \cap (1..Len(scenario_topics)),
          result \in SessionScenarioResults :
          StartTopic(scenario_topics[i], result)

UseCustomTopic ==
    /\ TopicsShown
    /\ \E custom_topic \in CustomTopics, result \in SessionScenarioResults :
          StartTopic(custom_topic, result)

ChooseOptionKeepsMetrics(option, out) ==
    LET relevant_heuristics ==
            get_relevant_heuristics(SessionCatalog, out.select,
                                    out.sample).relevant_heuristics
        impacts ==
            calculate_metric_impacts(out.impacts, OptionWords(current_scenario),
                                     out.rnd).impacts
    IN  IF ApplyRaises(business_metrics, impacts)
        THEN /\ raised' = "KeyError"
             /\ UNCHANGED <<business_metrics, current_analysis, current_impacts,
                            showing_decision_summary, last_choice>>
        ELSE /\ raised' = "none"
             /\ business_metrics' = business_metrics
             /\ current_analysis' = generate_decision_analysis(out.analysis)
             /\ current_impacts' = impacts
             /\ showing_decision_summary' = TRUE
             /\ last_choice' = Choice(current_topic, option, current_scenario,
                                      impacts, relevant_heuristics)

\* The handler of "Choose Option A" / "Choose Option B" (lines 450-487,
\* 496-533): select heuristics, compute the delta, apply it, analyse, store.
\* apply_metric_impacts is the first statement that can raise, and nothing
\* is stored before it.
ChooseOption(option, out) ==
    LET relevant_heuristics ==
            get_relevant_heuristics(SessionCatalog, out.select,
                                    out.sample).relevant_heuristics
        impacts ==
            calculate_metric_impacts(out.impacts, OptionWords(current_scenario),
                                     out.rnd).impacts
    IN  IF ApplyRaises(business_metrics, impacts)
        THEN /\ raised' = "KeyError"
             /\ UNCHANGED <<business_metrics, current_analysis, current_impacts,
                            showing_decision_summary, last_choice>>
        ELSE /\ raised' = "none"
             /\ business_metrics' = apply_metric_impacts(business_metrics, impacts)
             /\ current_analysis' = generate_decision_analysis(out.analysis)
             /\ current_impacts' = impacts
             /\ showing_decision_summary' = TRUE
             /\ last_choice' = Choice(current_topic, option, current_scenario,
                                      impacts, relevant_heuristics)

ChooseOptionA ==
    /\ OptionsPage
    /\ RendersOptionA
    /\ \E out \in SessionOutcomes : ChooseOption("a", out)
    /\ UNCHANGED <<step, viewing_step, business_profile, scenario_topics,
                   topics_generated, current_topic, current_scenario,
                   decision_history>>
    /\ UNCHANGED unitVars

ChooseOptionB ==
    /\ OptionsPage
    /\ RendersOptionB
    /\ \E out \in SessionOutcomes : ChooseOption("b", out)
    /\ UNCHANGED <<step, viewing_step, business_profile, scenario_topics,
                   topics_generated, current_topic, current_scenario,
                   decision_history>>
    /\ UNCHANGED unitVars

ContinueWithoutRecord ==
    /\ DecisionPage /\ ~InReview /\ showing_decision_summary
    /\ showing_decision_summary' = FALSE
    /\ current_analysis' = None
    /\ current_impacts' = NoImpacts
    /\ IF step + 1 > MAX_DECISIONS
       THEN /\ step' = SUMMARY
            /\ raised' = "none"
            /\ UNCHANGED current_scenario
       ELSE /\ step' = step + 1
            /\ \E result \in SessionScenarioResults :
                  LET r == generate_topic_scenario(current_topic, step + 1, result)
                  IN  /\ raised' = r.raised
                      /\ current_scenario' =
                            IF r.raised = "none" THEN r.scenario
                            ELSE current_scenario
    /\ UNCHANGED <<viewing_step, business_profile, scenario_topics,
                   topics_generated, current_topic, business_metrics,
                   last_choice, decision_history>>
    /\ UNCHANGED unitVars

\* "Continue Journey" / "View Final Summary" (lines 567-597): the decision
\* is recorded and the step advanced before the next scenario is generated
Continue ==
    /\ DecisionPage /\ ~InReview /\ showing_decision_summary
    /\ decision_history' =
          Append(decision_history,
                 HistoryEntry(last_choice, current_impacts,
                              current_scenario.sub_module_name))
    /\ showing_decision_summary' = FALSE
    /\ current_analysis' = None
    /\ current_impacts' = NoImpacts
    /\ IF step + 1 > MAX_DECISIONS
       THEN /\ step' = SUMMARY
            /\ raised' = "none"
            /\ UNCHANGED current_scenario
       ELSE /\ step' = step + 1
            /\ \E result \in SessionScenarioResults :
                  LET r == generate_topic_scenario(current_topic, step + 1, result)
                  IN  /\ raised' = r.raised
                      /\ current_scenario' =
                            IF r.raised = "none" THEN r.scenario
                            ELSE current_scenario
    /\ UNCHANGED <<viewing_step, business_profile, scenario_topics,
                   topics_generated, current_topic, business_metrics,
                   last_choice>>
    /\ UNCHANGED unitVars

\* "Review" under a completed step of the timeline (lines 355-365)
Review ==
    /\ DecisionPage
    /\ \E step_num \in 1..MAX_DECISIONS :
          /\ step_num < step
          /\ viewing_step' = step_num
    /\ raised' = "none"
    /\ UNCHANGED <<step, business_profile, scenario_topics, topics_generated,
                   current_topic, current_scenario, decision_history,
                   business_metrics, showing_decision_summary,
                   current_analysis, current_impacts, last_choice>>
    /\ UNCHANGED unitVars

\* "Return to Current Decision" (lines 384-390)
ReturnToCurrent ==
    /\ DecisionPage
    /\ viewing_step # 0 /\ viewing_step < step
    /\ viewing_step' = 0
    /\ raised' = "none"
    /\ UNCHANGED <<step, business_profile, scenario_topics, topics_generated,
                   current_topic, current_scenario, decision_history,
                   business_metrics, showing_decision_summary,
                   current_analysis, current_impacts, last_choice>>
    /\ UNCHANGED unitVars

\* reset_simulation (lines 78-90): viewing_step and last_choice are not
\* among the fields it assigns
reset_simulation ==
    /\ step' = 0
    /\ business_profile' = None
    /\ scenario_topics' = <<>>
    /\ current_topic' = <<>>
    /\ decision_history' = <<>>
    /\ business_metrics' = INITIAL_METRICS
    /\ current_scenario' = NoScenario
    /\ topics_generated' = FALSE
    /\ showing_decision_summary' = FALSE
    /\ current_analysis' = None
    /\ current_impacts' = NoImpacts
    /\ UNCHANGED <<viewing_step, last_choice>>

\* "Reset Simulation" (lines 746-750) is drawn after the decision step, so
\* a page that raised while drawing the options does not offer it
ResetSimulation ==
    /\ DecisionPage
    /\ ~RenderRaises
    /\ reset_simulation
    /\ raised' = "none"
    /\ UNCHANGED unitVars

\* "Start New Simulation" on the summary page (lines 628-630)
StartNewSimulation ==
    /\ step = SUMMARY
    /\ reset_simulation
    /\ raised' = "none"
    /\ UNCHANGED unitVars

Init ==
    /\ SessionInit
    /\ arg = None
    /\ ret = None
    /\ calls = 0

Next ==
    \/ GenerateBusinessProfile
    \/ GenerateScenarios
    \/ SelectTopic
    \/ UseCustomTopic
    \/ ChooseOptionA
    \/ ChooseOptionB
    \/ Continue
    \/ Review
    \/ ReturnToCurrent
    \/ ResetSimulation
    \/ StartNewSimulation

Spec == Init /\ [][Next]_vars

\* C3: no step of a session raises or blocks: every handler ends without an
\* exception and every decision page draws both options, so the user can
\* always choose, continue and reach the summary after five decisions.
C3_NeverRaisesNeverBlocks ==
    /\ raised = "none"
    /\ ~RenderRaises

-----------------------------------------------------------------------------
(* apply_metric_impacts on its own: arg holds the state and the delta      *)
(* passed in, as they are when the call has returned; ret is the result.   *)

StateSamples ==
    { Delta(c, s, g, r) : c \in {-30000, 80000, 100000}, s \in {0, 50, 98},
                          g \in {50, 100}, r \in {2, 30} }

\* the deltas of DeltaSamples and two outside the declared ranges
ApplyDeltas ==
    DeltaSamples \cup { Delta(-200000, 120, -120, 101), Delta(70000, 2, 0, -2) }

ApplyInit ==
    /\ SessionInit
    /\ arg \in [state : StateSamples, delta : ApplyDeltas]
    /\ ret = None
    /\ calls = 0

CallApplyMetricImpacts ==
    /\ calls = 0
    /\ LET done == ApplyOnCopy(arg.state, arg.delta)
       IN  /\ ret' = done.updated_metrics
           /\ arg' = [arg EXCEPT !.state = done.current_metrics]
    /\ calls' = 1
    /\ UNCHANGED sessionVars

ApplyNext == CallApplyMetricImpacts

SpecApply == ApplyInit /\ [][ApplyNext]_vars

\* C12: apply_metric_impacts(state, delta) returns a state whose cash_flow
\* is state.cash_flow + delta.cash_flow, not clamped, and whose percentage
\* fields are min(100, max(0, old + delta)); the state passed in is left
\* unchanged; {100000, 50, 50, 30} with {-20000, +10, +8, -5} gives
\* {80000, 60, 58, 25}.
C12_ApplyReturnsNewState ==
    [][ CallApplyMetricImpacts =>
          /\ ret'.cash_flow = arg.state.cash_flow + arg.delta.cash_flow
          /\ \A metric \in PercentKeys :
                LET plain == arg.state[metric] + arg.delta[metric]
                IN  ret'[metric] = IF plain < 0 THEN 0
                                   ELSE IF plain > 100 THEN 100 ELSE plain
          /\ arg'.state = arg.state
          /\ (arg.state = Delta(100000, 50, 50, 30)
                /\ arg.delta = Delta(-20000, 10, 8, -5))
             => ret' = Delta(80000, 60, 58, 25) ]_vars

\* a call that drove cash below zero, held one percentage at a bound and
\* changed another, so that the result differs from the state passed in
C12_Witness ==
    /\ calls = 1
    /\ ret.cash_flow < 0
    /\ arg.state.customer_satisfaction + arg.delta.customer_satisfaction > 100
    /\ ret.customer_satisfaction = 100
    /\ ret.growth_potential # arg.state.growth_potential

-----------------------------------------------------------------------------
(* The Heuristic Selector's result, under SpecSelect                       *)

\* C13: whatever text the completion service returns (ids not in the
\* catalog, empty segments, surrounding whitespace), every heuristic that
\* get_relevant_heuristics returns has an id that is a key of the catalog;
\* unknown ids are dropped and the call returns.
C13_OnlyCatalogIds ==
    calls = 1 =>
        /\ \A i \in 1..Len(ret.relevant_heuristics) :
              ret.relevant_heuristics[i] \in Catalog(arg.n)
        /\ arg.resp.kind = "text" =>
              Len(ret.relevant_heuristics) <= Len(arg.resp.segments)

\* a text with an unknown id, an empty segment and a padded catalog id: the
\* padded id is returned and the other two are dropped
C13_Witness ==
    /\ calls = 1
    /\ arg.resp.kind = "text"
    /\ \E i, j, k \in 1..Len(arg.resp.segments) :
          /\ arg.resp.segments[i] = Str(FALSE, "zz")
          /\ arg.resp.segments[j] = Str(FALSE, "")
          /\ arg.resp.segments[k] = Str(TRUE, "h2")
    /\ ret.relevant_heuristics = <<"h2">>

\* C14: for a catalog of at least 3 heuristics get_relevant_heuristics
\* returns 2 or 3 heuristics, whatever the completion service returns.
C14_TwoOrThree ==
    (calls = 1 /\ Cardinality(Catalog(arg.n)) >= 3) =>
        Len(ret.relevant_heuristics) \in {2, 3}

-----------------------------------------------------------------------------
(* The Impact Calculator's handling of values out of range, under          *)
(* SpecImpacts                                                             *)

NearestBound(lo, hi, v) == IF v < lo THEN lo ELSE IF v > hi THEN hi ELSE v

OutOfRange(doc) ==
    \/ doc.cash_flow.v < -50000 \/ doc.cash_flow.v > 25000
    \/ \E metric \in PercentKeys : doc[metric].v < -25 \/ doc[metric].v > 25

\* C15: a model response that holds all four keys with numeric values, one
\* or more of them outside the declared range, is accepted on its attempt:
\* the returned delta keeps each in-range value, replaces each out-of-range
\* value by the nearest bound of its range, and neither a further attempt
\* nor the fallback engine is used.
C15_ClampedNotRejected ==
    calls = 1 =>
        LET first == FirstAttempt(arg.resps, HoldsFourNumbers)
        IN  (first # 0 /\ OutOfRange(arg.resps[first].doc)) =>
                /\ ret.requests = first
                /\ ~ret.fallback
                /\ ret.impacts.cash_flow =
                      NearestBound(-50000, 25000, arg.resps[first].doc.cash_flow.v)
                /\ \A metric \in PercentKeys :
                      ret.impacts[metric] =
                          NearestBound(-25, 25, arg.resps[first].doc[metric].v)

\* a failed first attempt, then a response with three values above their
\* range and risk_level at its bound: the call ends there with the bounds
C15_Witness ==
    /\ calls = 1
    /\ arg.resps[1].kind = "status"
    /\ arg.resps[2] = ImpactResp("dict", FALSE, HighDoc)
    /\ ret.requests = 2
    /\ ~ret.fallback
    /\ ret.impacts = Delta(25000, 25, 25, 25)

-----------------------------------------------------------------------------
(* The fallback impact engine on its own: arg holds the three arguments    *)
(* and the draws of random.randint.                                        *)

ScenarioTexts == { {}, {"invest", "customer"}, {"risky", "Expand", "save"} }

HeuristicLists == { <<>>, <<"h1", "h2">>, <<"h3">> }

FallbackInit ==
    /\ SessionInit
    /\ arg \in [scenario_description : ScenarioTexts,
                choice_description : ChoiceTexts,
                relevant_heuristics : HeuristicLists,
                rnd : RandomDraws]
    /\ ret = None
    /\ calls = 0

CallCalculateFallbackImpacts ==
    /\ calls = 0
    /\ ret' = FallbackEngine(arg.scenario_description, arg.choice_description,
                             arg.relevant_heuristics, arg.rnd)
    /\ calls' = 1
    /\ UNCHANGED arg
    /\ UNCHANGED sessionVars

FallbackNext == CallCalculateFallbackImpacts

SpecFallback == FallbackInit /\ [][FallbackNext]_vars

\* one of the keywords occurs in the lowercased choice text
Occurs(keywords) ==
    \E word \in arg.choice_description : LowerWord(word) \in keywords

Between(v, lo, hi) == v >= lo /\ v <= hi

\* C16: the fallback engine's result is decided by the keywords in the
\* lowercased choice text alone, each metric on its own and the first
\* listed rule of a metric winning: cash_flow in [-25000, -10000] on
\* invest/purchase/buy/spend, else in [5000, 15000] on save/reduce
\* cost/minimize, else 0; customer_satisfaction in [5, 15] on
\* customer/service/experience/quality, else 0; growth_potential in [5, 15]
\* on expand/grow/improve/upgrade, else 0; risk_level in [-15, -5] on
\* safe/secure/protect, else in [5, 15] on risky/aggressive/ambitious,
\* else 0.
C16_FallbackRules ==
    calls = 1 =>
        /\ DOMAIN ret = MetricKeys
        /\ IF Occurs({"invest", "purchase", "buy", "spend"})
           THEN Between(ret.cash_flow, -25000, -10000)
           ELSE IF Occurs({"save", "reduce cost", "minimize"})
           THEN Between(ret.cash_flow, 5000, 15000)
           ELSE ret.cash_flow = 0
        /\ IF Occurs({"customer", "service", "experience", "quality"})
           THEN Between(ret.customer_satisfaction, 5, 15)
           ELSE ret.customer_satisfaction = 0
        /\ IF Occurs({"expand", "grow", "improve", "upgrade"})
           THEN Between(ret.growth_potential, 5, 15)
           ELSE ret.growth_potential = 0
        /\ IF Occurs({"safe", "secure", "protect"})
           THEN Between(ret.risk_level, -15, -5)
           ELSE IF Occurs({"risky", "aggressive", "ambitious"})
           THEN Between(ret.risk_level, 5, 15)
           ELSE ret.risk_level = 0

\* "We will Invest in new ovens" beside a scenario text full of other
\* keywords and two heuristics: cash_flow is drawn, the other three are 0
C16_Witness ==
    /\ calls = 1
    /\ arg.choice_description = {"Invest", "ovens"}
    /\ arg.scenario_description = {"risky", "Expand", "save"}
    /\ arg.relevant_heuristics = <<"h1", "h2">>
    /\ Between(ret.cash_flow, -25000, -10000)
    /\ ret.customer_satisfaction = 0
    /\ ret.growth_potential = 0
    /\ ret.risk_level = 0

-----------------------------------------------------------------------------
(* src/heuristics.py: generate_final_analysis, as display_summary calls it *)

\* What the request of generate_final_analysis can come back with:
\*   exception  requests.post raises
\*   status     status_code is not 200
\*   notjson    response.json() raises, the body is no JSON object, or its
\*              'object' is not a string
\*   text       a JSON object; object is the text of its 'object' field, the
\*              empty text when the field is missing
FinalResp(kind, object) == [kind |-> kind, object |-> object]

\* the value the function returns: a text, the fixed apology, or None
FinalText(s) == [kind |-> "text", text |-> s]
FinalApology == [kind |-> "apology", text |-> EmptyStr]
FinalNone == [kind |-> "None", text |-> EmptyStr]

\* The return of line 318 is inside the if of line 317 and the apology is
\* returned by the except clause: a status that is not 200 raises nothing
\* and the function ends without a return statement.
generate_final_analysis(decision_history_arg, final_metrics, resp) ==
    IF resp.kind \in {"exception", "notjson"} THEN FinalApology
    ELSE IF resp.kind = "status" THEN FinalNone
    ELSE FinalText(Strip(resp.object))

FinalResps ==
    { FinalResp("exception", EmptyStr), FinalResp("status", EmptyStr),
      FinalResp("notjson", EmptyStr), FinalResp("text", EmptyStr),
      FinalResp("text", Str(TRUE, "assessment")),
      FinalResp("text", Str(FALSE, "assessment")) }

FinalInit ==
    /\ SessionInit
    /\ arg \in [final_metrics : StateSamples, resp : FinalResps]
    /\ ret = None
    /\ calls = 0

CallGenerateFinalAnalysis ==
    /\ calls = 0
    /\ ret' = generate_final_analysis(decision_history, arg.final_metrics, arg.resp)
    /\ calls' = 1
    /\ UNCHANGED arg
    /\ UNCHANGED sessionVars

FinalNext == CallGenerateFinalAnalysis

SpecFinal == FinalInit /\ [][FinalNext]_vars

\* C17: generate_final_analysis returns the fixed apology string on every
\* failure of the completion request, an exception or a non-success status
\* alike, and never returns None.
C17_ApologyOnEveryFailure ==
    calls = 1 =>
        /\ arg.resp.kind \in {"exception", "status"} => ret = FinalApology
        /\ ret # FinalNone

-----------------------------------------------------------------------------
(* generate_scenario_topics on its own: arg holds whether a heuristics     *)
(* model is passed, what its selector would return, and the response.      *)

MaxTopicLines == 9

TopicLineSamples ==
    { <<>>, <<"1.">>, <<"Fleet", "Management">>,
      <<"-", "2.", "Staff", "Management">>, <<"*", "data:", "x">> }

\* the texts of up to 3 lines, and the long lists of 4 to MaxTopicLines
\* topics, every second one numbered
TopicTexts ==
    UNION { [1..len -> TopicLineSamples] : len \in 0..3 }
    \cup { [i \in 1..len |-> IF i % 2 = 0
                             THEN <<"1.", "Customer", "Service">>
                             ELSE <<"Marketing", "Strategy">>] :
            len \in 4..MaxTopicLines }

TopicsResps ==
    { TopicsResp("exception", <<>>), TopicsResp("status", <<>>) }
    \cup { TopicsResp("text", lines) : lines \in TopicTexts }

TopicsInit ==
    /\ SessionInit
    /\ arg \in [heuristics_model : BOOLEAN,
                relevant_heuristics : {<<"h1", "h2", "h3">>},
                resp : TopicsResps]
    /\ ret = None
    /\ calls = 0

CallGenerateScenarioTopics ==
    /\ calls = 0
    /\ ret' = generate_scenario_topics(arg.heuristics_model,
                                       arg.relevant_heuristics, arg.resp)
    /\ calls' = 1
    /\ UNCHANGED arg
    /\ UNCHANGED sessionVars

TopicsNext == CallGenerateScenarioTopics

SpecTopics == TopicsInit /\ [][TopicsNext]_vars

\* no line of the text is a topic: each is blank, a bare enumeration prefix
\* or a 'data:' line
NoTopicAfterCleaning(lines) ==
    \A i \in 1..Len(lines) :
        \/ \A j \in 1..Len(lines[i]) : lines[i][j] \in EnumerationWords
        \/ \E j \in 1..Len(lines[i]) :
              /\ lines[i][j] = "data:"
              /\ \A k \in 1..(j - 1) : lines[i][k] \in EnumerationWords

TopicRequestFailed(resp) ==
    \/ resp.kind \in {"exception", "status"}
    \/ resp.kind = "text" /\ NoTopicAfterCleaning(resp.lines)

\* C18: when the topic request fails or yields no topic after cleaning,
\* generate_scenario_topics returns without raising, with or without a
\* heuristics model: the fixed 5-topic list, with up to 2 topics made from
\* the top heuristics' names before it when a heuristics model is passed.
C18_FallbackTopicList ==
    (calls = 1 /\ TopicRequestFailed(arg.resp)) =>
        /\ ret.raised = "none"
        /\ Len(ret.topics) >= 5 /\ Len(ret.topics) <= 7
        /\ SubSeq(ret.topics, Len(ret.topics) - 4, Len(ret.topics)) =
              << <<"Staff", "Management">>, <<"Marketing", "Strategy">>,
                 <<"Financial", "Planning">>, <<"Customer", "Service">>,
                 <<"Technology", "Implementation">> >>
        /\ ~arg.heuristics_model => Len(ret.topics) = 5

\* C18 for the call the application makes, without a heuristics model: the
\* result is the fixed list
C18_WithoutModel ==
    (calls = 1 /\ TopicRequestFailed(arg.resp) /\ ~arg.heuristics_model) =>
        ret = [raised |-> "none", topics |-> base_topics]

\* C19: called with the profile alone, on every path (a response of any
\* shape, or the fallback) generate_scenario_topics returns at most 7
\* topics, each non-empty once its leading enumeration characters are
\* stripped.
C19_AtMostSevenTopics ==
    (calls = 1 /\ ~arg.heuristics_model) =>
        /\ ret.raised = "none"
        /\ Len(ret.topics) <= 7
        /\ \A i \in 1..Len(ret.topics) :
              \E j \in 1..Len(ret.topics[i]) :
                  ret.topics[i][j] \notin EnumerationWords

\* a response of 9 topic lines, of which the first 7 are returned, the
\* numbered ones without their numbers
C19_Witness ==
    /\ calls = 1
    /\ ~arg.heuristics_model
    /\ arg.resp.kind = "text"
    /\ Len(arg.resp.lines) = 9
    /\ Len(ret.topics) = 7
    /\ arg.resp.lines[2] = <<"1.", "Customer", "Service">>
    /\ ret.topics[2] = <<"Customer", "Service">>

-----------------------------------------------------------------------------
(* generate_fallback_scenario on its own: arg holds the topic and the step *)

FallbackScenarioTopics ==
    Topics \cup { <<"Marketing", "Staff">>, <<"Employee", "Marketing">>,
                  <<"Financial", "Planning">> }

FallbackScenarioInit ==
    /\ SessionInit
    /\ arg \in [topic : FallbackScenarioTopics, step : 1..MaxStep]
    /\ ret = None
    /\ calls = 0

CallGenerateFallbackScenario ==
    /\ calls = 0
    /\ ret' = generate_fallback_scenario(arg.topic, arg.step)
    /\ calls' = 1
    /\ UNCHANGED arg
    /\ UNCHANGED sessionVars

FallbackScenarioNext == CallGenerateFallbackScenario

SpecFallbackScenario == FallbackScenarioInit /\ [][FallbackScenarioNext]_vars

\* the lowercased topic holds the key
TopicHas(key) ==
    \E i \in 1..Len(arg.topic) :
        \/ Lower(arg.topic[i]) = key
        \/ Lower(arg.topic[i]) = "marketing" /\ key = "market"

\* C20: generate_fallback_scenario(topic, step) is decided by its
\* arguments: the family table is the first match on the lowercased topic
\* of fleet/vehicle, then staff/employee, then market, else the generic
\* one, and the entry is the one at index min(step, 5) - 1 for step >= 1;
\* "Fleet Management" at step 3 gives "Vehicle Acquisition" with the
\* sub-module name "Fleet Expansion Decisions".
C20_FallbackScenarioEntry ==
    calls = 1 =>
        LET family ==
                IF TopicHas("fleet") \/ TopicHas("vehicle") THEN FleetAspects
                ELSE IF TopicHas("staff") \/ TopicHas("employee") THEN StaffAspects
                ELSE IF TopicHas("market") THEN MarketAspects
                ELSE GenericAspects
            entry == family[(IF arg.step < 5 THEN arg.step ELSE 5) - 1 + 1]
        IN  /\ ret.aspect = entry[1]
            /\ ret.sub_module_name = entry[2]
            /\ (arg.topic = <<"Fleet", "Management">> /\ arg.step = 3) =>
                  /\ ret.aspect = "Vehicle Acquisition"
                  /\ ret.sub_module_name = "Fleet Expansion Decisions"

\* "Fleet Management" at step 3
C20_Witness ==
    /\ calls = 1
    /\ arg.topic = <<"Fleet", "Management">>
    /\ arg.step = 3
    /\ ret.aspect = "Vehicle Acquisition"
    /\ ret.sub_module_name = "Fleet Expansion Decisions"

-----------------------------------------------------------------------------
(* A stream without a usable chunk.                                        *)

\* C21: when the body holds stream lines but no usable chunk (each chunk is
\* malformed JSON, a loader marker, the '[DONE]' sentinel or an object with
\* neither 'message' nor 'object'), parse_streaming_response returns the
\* empty text, and make_api_call counts the attempt as failed: with no
\* attempt left it returns None, never a payload or the raw body.
C21_NoUsableChunkIsEmpty ==
    (calls = 1 /\ HasStreamLine(arg) /\ ~HasUsable(arg)) =>
        /\ ret.parsed.kind = "payload"
        /\ ret.parsed.text = EmptyStr
        /\ ret.client.result = NoneResult
        /\ ret.client.requests = 1

\* a malformed chunk, an object with neither field and the '[DONE]' sentinel
C21_Witness ==
    /\ calls = 1
    /\ Len(arg) = 3
    /\ arg[1].kind = "data_bad"
    /\ arg[2] = DataJson(FALSE, EmptyStr, FALSE, EmptyStr)
    /\ arg[3] = DataJson(TRUE, Str(FALSE, "[DONE]"), FALSE, EmptyStr)
    /\ ret.parsed.text = EmptyStr
    /\ ret.client.result = NoneResult

-----------------------------------------------------------------------------
(* The decision history of a session.                                      *)

\* the records of a history h, in order, are the first records of h2
IsPrefix(h, h2) == Len(h) <= Len(h2) /\ SubSeq(h2, 1, Len(h)) = h

\* one step of the session, seen from decision_history: it is left alone,
\* or one record is appended by the handler that completes the step, or a
\* reset empties it
HistoryStep ==
    \/ decision_history' = decision_history /\ step' = step
    \/ /\ decision_history' = decision_history /\ step' # step
       /\ step = 0 /\ step' = 1 /\ decision_history = <<>>
    \/ /\ Len(decision_history') = Len(decision_history) + 1
       /\ IsPrefix(decision_history, decision_history')
       /\ step \in 1..MAX_DECISIONS /\ step' = step + 1
       /\ showing_decision_summary /\ ~showing_decision_summary'
    \/ /\ decision_history' = <<>>
       /\ step' = 0

\* C22: between two resets decision_history changes only by appending, one
\* record for each completed step, and no record is changed or removed;
\* during decision step k it holds k - 1 records and at the summary 5.
C22_HistoryAppendOnly ==
    /\ [](step \in 1..MAX_DECISIONS => Len(decision_history) = step - 1)
    /\ [](step = SUMMARY => Len(decision_history) = MAX_DECISIONS)
    /\ [][HistoryStep]_vars

\* the summary page after five completed steps
C22_Witness ==
    /\ step = SUMMARY
    /\ Len(decision_history) = 5
    /\ \A k \in 1..5 : decision_history[k].choice[1] \in {"a", "b"}

-----------------------------------------------------------------------------
(* src/generator.py: generate_fallback_analysis on its own. arg holds the  *)
(* choice title, the delta and the heuristics. A heuristic's name is the   *)
(* sequence of its words; the text returned is the sequence of the parts   *)
(* joined by "".join: the header, one paragraph per heuristic, the closing *)
(* sentence. A paragraph is given by the template used and what it quotes. *)

MaxHeuristics == 2

\* heuristic['name'].lower(), word by word
NameLower(word) ==
    CASE word = "Risk" -> "risk"
      [] word = "Growth" -> "growth"
      [] word = "Cash" -> "cash"
      [] OTHER -> Lower(word)

\* "risk" in heuristic['name'].lower()
NameHolds(name, key) ==
    \E i \in 1..Len(name) : HoldsSubstring(NameLower(name[i]), key)

HeuristicRecord(name, applicability) ==
    [name |-> name, applicability |-> applicability]

\* f"Analysis of the decision to {choice_title.lower()}:"
HeaderPart(choice_title) ==
    [part |-> "header", choice |-> [i \in 1..Len(choice_title) |-> Lower(choice_title[i])]]

\* the sentence written after f"\n\nApplying the {heuristic['name']}: ":
\* metric is the metric whose template is used ("generic" for the last
\* else), positive tells which of its two templates, quoted is the delta
\* the sentence prints
HeuristicPart(heuristic, metric, positive, quoted) ==
    [part |-> "heuristic", name |-> heuristic.name,
     applicability |-> heuristic.applicability,
     metric |-> metric, positive |-> positive, quoted |-> quoted]

MetricPart(heuristic, metric, impacts) ==
    HeuristicPart(heuristic, metric, impacts[metric] > 0, impacts[metric])

HeuristicAnalysisGrowthFirst(heuristic, impacts) ==
    IF NameHolds(heuristic.name, "growth")
    THEN MetricPart(heuristic, "growth_potential", impacts)
    ELSE IF NameHolds(heuristic.name, "risk")
    THEN MetricPart(heuristic, "risk_level", impacts)
    ELSE IF NameHolds(heuristic.name, "customer")
    THEN MetricPart(heuristic, "customer_satisfaction", impacts)
    ELSE IF NameHolds(heuristic.name, "financial") \/ NameHolds(heuristic.name, "cash")
    THEN MetricPart(heuristic, "cash_flow", impacts)
    ELSE HeuristicPart(heuristic, "generic", FALSE, 0)

\* the body of the loop over relevant_heuristics (lines 375-405)
HeuristicAnalysis(heuristic, impacts) ==
    IF NameHolds(heuristic.name, "risk")
    THEN MetricPart(heuristic, "risk_level", impacts)
    ELSE IF NameHolds(heuristic.name, "growth")
    THEN MetricPart(heuristic, "growth_potential", impacts)
    ELSE IF NameHolds(heuristic.name, "customer")
    THEN MetricPart(heuristic, "customer_satisfaction", impacts)
    ELSE IF NameHolds(heuristic.name, "financial") \/ NameHolds(heuristic.name, "cash")
    THEN MetricPart(heuristic, "cash_flow", impacts)
    ELSE HeuristicPart(heuristic, "generic", FALSE, 0)

\* sum(impacts.values())
RECURSIVE SumValues(_, _)
SumValues(impacts, keys) ==
    IF keys = {} THEN 0
    ELSE LET key == CHOOSE k \in keys : TRUE
         IN  impacts[key] + SumValues(impacts, keys \ {key})

ClosingPart(total_impact) == [part |-> "closing", positive |-> total_impact > 0]

generate_fallback_analysis(scenario_description, choice_title, impacts, relevant_heuristics) ==
    <<HeaderPart(choice_title)>>
    \o [i \in 1..Len(relevant_heuristics) |->
            HeuristicAnalysis(relevant_heuristics[i], impacts)]
    \o <<ClosingPart(SumValues(impacts, DOMAIN impacts))>>

AnalysisHeuristics ==
    { HeuristicRecord(<<"Risk", "Management">>, "hedging"),
      HeuristicRecord(<<"Growth", "Risk", "Matrix">>, "scaling"),
      HeuristicRecord(<<"Growth", "Flywheel">>, "scaling"),
      HeuristicRecord(<<"Customer", "Service">>, "loyalty"),
      HeuristicRecord(<<"Financial", "Planning">>, "budgeting"),
      HeuristicRecord(<<"Cash", "Conversion">>, "liquidity"),
      HeuristicRecord(<<"Porter", "Five", "Forces">>, "rivalry") }

AnalysisImpacts ==
    { Delta(c, s, g, r) : c \in {-20000, 0, 5}, s \in {-5, 0, 10},
                          g \in {-8, 8}, r \in {-5, 0, 5} }

AnalysisTitles == { <<"Invest", "in", "Fleet">>, <<"wait">> }

AnalysisInit ==
    /\ SessionInit
    /\ arg \in [scenario_description : {"scenario"},
                choice_title : AnalysisTitles,
                impacts : AnalysisImpacts,
                relevant_heuristics :
                    UNION { [1..n -> AnalysisHeuristics] : n \in 0..MaxHeuristics }]
    /\ ret = None
    /\ calls = 0

CallGenerateFallbackAnalysis ==
    /\ calls = 0
    /\ ret' = generate_fallback_analysis(arg.scenario_description, arg.choice_title,
                                         arg.impacts, arg.relevant_heuristics)
    /\ calls' = 1
    /\ UNCHANGED <<arg, step, viewing_step, business_profile, scenario_topics,
                   topics_generated, current_topic, current_scenario,
                   decision_history, business_metrics, showing_decision_summary,
                   current_analysis, current_impacts, last_choice, raised>>

AnalysisNext == CallGenerateFallbackAnalysis

SpecAnalysis == AnalysisInit /\ [][AnalysisNext]_vars

\* the keywords in the order the specification gives them, each with the
\* metric it selects
KeywordTable ==
    << <<"risk", "risk_level">>, <<"growth", "growth_potential">>,
       <<"customer", "customer_satisfaction">>, <<"financial", "cash_flow">>,
       <<"cash", "cash_flow">> >>

\* the lowercase words of a name
NameWords(name) == { NameLower(name[i]) : i \in 1..Len(name) }

\* the metric of the first keyword of the table the name holds
FirstMatch(name) ==
    IF \E k \in 1..Len(KeywordTable) : KeywordTable[k][1] \in NameWords(name)
    THEN KeywordTable[
            CHOOSE k \in 1..Len(KeywordTable) :
               /\ KeywordTable[k][1] \in NameWords(name)
               /\ \A j \in 1..(k - 1) : KeywordTable[j][1] \notin NameWords(name)][2]
    ELSE "generic"

\* C23: the fallback analysis holds one paragraph per heuristic, in input
\* order, between the header and the closing sentence; each paragraph is
\* about the metric of the first of 'risk', 'growth', 'customer',
\* 'financial' or 'cash' found in the lowercased name and is worded
\* positively exactly when that metric's delta is above 0, or is the generic
\* sentence when no keyword is found; the closing sentence is the positive
\* one exactly when the four deltas sum to more than 0.
C23_OneParagraphPerHeuristic ==
    calls = 1 =>
        LET n == Len(arg.relevant_heuristics)
        IN  /\ Len(ret) = n + 2
            /\ ret[1].part = "header"
            /\ \A i \in 1..n :
                  LET heuristic == arg.relevant_heuristics[i]
                      metric == FirstMatch(heuristic.name)
                  IN  /\ ret[i + 1].part = "heuristic"
                      /\ ret[i + 1].name = heuristic.name
                      /\ ret[i + 1].metric = metric
                      /\ metric # "generic" =>
                            (ret[i + 1].positive <=> arg.impacts[metric] > 0)
            /\ ret[n + 2].part = "closing"
            /\ ret[n + 2].positive <=>
                  (arg.impacts.cash_flow + arg.impacts.customer_satisfaction
                   + arg.impacts.growth_potential + arg.impacts.risk_level > 0)

\* a name holding 'growth' and 'risk' is analysed by risk, a cash name
\* after it by cash flow, and the deltas sum to more than 0
C23_Witness ==
    /\ calls = 1
    /\ Len(arg.relevant_heuristics) = 2
    /\ arg.relevant_heuristics[1].name = <<"Growth", "Risk", "Matrix">>
    /\ arg.relevant_heuristics[2].name = <<"Cash", "Conversion">>
    /\ arg.impacts = Delta(5, 10, -8, -5)
    /\ ret[2].metric = "risk_level" /\ ~ret[2].positive
    /\ ret[3].metric = "cash_flow" /\ ret[3].positive
    /\ ret[4].positive

-----------------------------------------------------------------------------
(* The range of the health score.                                          *)

\* C24: for every metrics state reached by applying deltas, with the
\* percentages in [0, 100] and the cash balance any integer, every value
\* calculate_business_health can return is an integer from 0 to 100.
C24_HealthInRange ==
    \A health_score \in calculate_business_health(business_metrics) :
        health_score \in 0..100

\* a cash balance below zero with the percentages at their worst: the exact
\* value is negative and the score is 0
C24_Witness ==
    /\ calls > 0
    /\ business_metrics.cash_flow < 0
    /\ HealthNumerator(business_metrics) < 0
    /\ calculate_business_health(business_metrics) = {0}

-----------------------------------------------------------------------------
(* The metrics of a session against its history.                           *)

\* the deltas applied one after the other, each by apply_metric_impacts
RECURSIVE ApplyAll(_, _)
ApplyAll(metrics, deltas) ==
    IF deltas = <<>> THEN metrics
    ELSE ApplyAll(apply_metric_impacts(metrics, deltas[1]), Tail(deltas))

\* the deltas of the recorded decisions, then the delta of the decision
\* chosen and not yet continued
SessionDeltas ==
    [i \in 1..Len(decision_history) |-> decision_history[i].impacts]
    \o (IF showing_decision_summary THEN <<current_impacts>> ELSE <<>>)

-----------------------------------------------------------------------------
(* The step shown as active.                                               *)

\* C27: whenever step is one of the decision steps 1..5, viewing_step is
\* unset or a step before the current one, so the step drawn as the active
\* one is the current step; this holds after any sequence of Review, Return,
\* Continue, Reset and topic selection.
C27_ViewingStepBelowStep ==
    step \in 1..MAX_DECISIONS => (viewing_step = 0 \/ viewing_step < step)

\* a reset during the review of step 2, then a new run: step 2 is drawn as
\* the active step while the current step is 1
C27_StaleViewingStep ==
    ~(step = 1 /\ viewing_step = 2 /\ decision_history = <<>>)

-----------------------------------------------------------------------------
(* The keys of a delta.                                                    *)

\* C28: every delta calculate_metric_impacts returns has the four metric
\* keys and no other key, so apply_metric_impacts never meets a metric name
\* the metrics state lacks.
C28_ExactlyFourKeys ==
    calls = 1 =>
        /\ DOMAIN ret.impacts = MetricKeys
        /\ ~ApplyRaises(INITIAL_METRICS, ret.impacts)

-----------------------------------------------------------------------------
(* The prompts make_api_call sends.                                        *)

\* C29: the first attempt of make_api_call sends the caller's prompt
\* unchanged; every later attempt sends that prompt behind exactly one
\* persona phrase, one of the 5 personas, drawn for that attempt: the phrase
\* of an earlier attempt is not carried over.
C29_OnePersonaPerRetry ==
    calls = 1 =>
        \A k \in 1..ret.requests :
            IF k = 1 THEN ret.sent[k] = <<>>
            ELSE /\ Len(ret.sent[k]) = 1
                 /\ ret.sent[k][1] \in Personas
                 /\ ret.sent[k][1] = arg.draws[k - 1]

-----------------------------------------------------------------------------
(* src/heuristics.py: the prompts calculate_metric_impacts sends. arg      *)
(* holds what each of the three requests would come back with and, for     *)
(* each attempt, the position random.choice picks. A prompt is the pool    *)
(* random.choice was given and the phrases in front of base_prompt; a      *)
(* phrase is written without the blank or newline that ends it.            *)

\* perspective_variations of get_random_prompt_variation
PerspectiveVariations ==
    << "As an experienced franchise consultant,",
       "Taking the role of a business strategist,",
       "From the perspective of a seasoned entrepreneur,",
       "As a franchise industry expert,",
       "With years of business advisory experience," >>

PromptPrefixesAllFive == PerspectiveVariations

\* the list given to random.choice in the loop of calculate_metric_impacts
PromptPrefixes ==
    << "As an experienced franchise consultant,",
       "Taking the role of a business strategist,",
       "From the perspective of a seasoned entrepreneur," >>

\* random.choice(seq), draw being the position picked
RandomChoice(seq, draw) == seq[draw]

\* if attempt > 0: prompt = prompt_prefix + base_prompt / else: prompt = base_prompt
ImpactPrompt(attempt, draw) ==
    IF attempt > 0
    THEN [pool |-> PromptPrefixes, prefix |-> <<RandomChoice(PromptPrefixes, draw)>>]
    ELSE [pool |-> <<>>, prefix |-> <<>>]

\* the prompts of the requests one call makes
ImpactPrompts(resps, draws, choice_description, rnd) ==
    [k \in 1..calculate_metric_impacts(resps, choice_description, rnd).requests |->
        ImpactPrompt(k - 1, draws[k])]

PromptResps ==
    { ImpactResp("exception", FALSE, NoDoc),
      ImpactResp("dict", FALSE, MissingDoc),
      ImpactResp("dict", TRUE, GoodDoc) }

PromptsInit ==
    /\ SessionInit
    /\ arg \in [resps : [1..IMPACT_ATTEMPTS -> PromptResps],
                draws : [1..IMPACT_ATTEMPTS -> 1..Len(PromptPrefixes)]]
    /\ ret = None
    /\ calls = 0

CallImpactPrompts ==
    /\ calls = 0
    /\ ret' = ImpactPrompts(arg.resps, arg.draws, {},
                            [metric \in MetricKeys |-> "mid"])
    /\ calls' = 1
    /\ UNCHANGED <<arg, step, viewing_step, business_profile, scenario_topics,
                   topics_generated, current_topic, current_scenario,
                   decision_history, business_metrics, showing_decision_summary,
                   current_analysis, current_impacts, last_choice, raised>>

PromptsNext == CallImpactPrompts

SpecPrompts == PromptsInit /\ [][PromptsNext]_vars

\* the elements of a sequence
Range(seq) == { seq[i] : i \in 1..Len(seq) }

\* the first attempt sends base_prompt alone; each later attempt sends it
\* behind one phrase, the one drawn for that attempt out of pool
OnePhraseFrom(pool) ==
    \A k \in 1..Len(ret) :
        IF k = 1 THEN ret[k].prefix = <<>>
        ELSE /\ Len(ret[k].prefix) = 1
             /\ ret[k].prefix[1] = pool[arg.draws[k]]
             /\ Range(ret[k].pool) = Range(pool)

\* C30 as the specification states it: the phrase of the second and of the
\* third attempt is drawn from the pool of 5 personas the Completion Client
\* uses.
C30_Original ==
    calls = 1 => OnePhraseFrom(PerspectiveVariations)

\* C30 (amended): the first attempt of calculate_metric_impacts sends the
\* base prompt with no prefix; the second and the third each send the base
\* prompt behind exactly one persona phrase, drawn independently for that
\* attempt from a pool of 3 phrases, the first three of the 5 personas the
\* Completion Client uses.
C30_ThreePhrasePool ==
    calls = 1 =>
        /\ OnePhraseFrom(SubSeq(PerspectiveVariations, 1, 3))
        /\ \A k \in 2..Len(ret) : ret[k].prefix[1] \in Range(PerspectiveVariations)

\* three attempts, the second and the third with different phrases
C30_Witness ==
    /\ calls = 1
    /\ Len(ret) = 3
    /\ ret[1].prefix = <<>>
    /\ ret[2].prefix = <<"From the perspective of a seasoned entrepreneur,">>
    /\ ret[3].prefix = <<"As an experienced franchise consultant,">>

=============================================================================
